---- MODULE Spec2Model ----
(***************************************************************************)
(* Query IR of cruddl: the authorization transformers, the pass that moves *)
(* RuntimeError nodes to output nodes, and the in-memory JavaScript        *)
(* generator (the generated code is modelled by what it evaluates to).     *)
(***************************************************************************)
EXTENDS Integers, Sequences, FiniteSets, TLC

VARIABLES
    pc,           \* stage of the pipeline
    root,         \* the query tree handed to the authorization pass
    authContext,  \* verdict of every permission check of this request
    db,           \* in-memory database: collections and edge collections
    queryTree,    \* input of moveErrorsToOutputNodes
    tree,         \* the tree under transformation (visitObject's result so far)
    path,         \* position of the visitor: child indexes from the root
    dir,          \* "enter" or "leave": which callback comes next at path
    stack,        \* moveErrorsToOutputNodes: stack of StackFrame
    errorList,    \* moveErrorsToOutputNodes: collected RuntimeErrorQueryNodes
    left,         \* the last call of leave: arguments and return value
    transformed,  \* the last call of an authorization transformer
    thrown,       \* message of the Error thrown, <<>> if none
    jsQuery,      \* the JSCompoundQuery built by getJSQuery
    resultVars,   \* values bound to query result variables so far
    nextPreExec,  \* index of the next pre-execution query to run
    result,       \* value of the main query
    secondQuery,  \* what a second call of getJSQuery on the tree gives
    movedOnce,    \* the result of the pass, kept when the pass runs on its own result
    rootEntities,         \* schema: the permissionProfile argument of every root entity
    permissionProfiles,   \* schema: the registry of permission profiles
    validationMessages    \* what UndefinedPermissionProfileValidator.validate returned

vars == <<pc, root, authContext, db, queryTree, tree, path, dir, stack, errorList,
          left, transformed, thrown, jsQuery, resultVars, nextPreExec, result,
          secondQuery, movedOnce, rootEntities, permissionProfiles, validationMessages>>
schemaVars == <<rootEntities, permissionProfiles, validationMessages>>

(***************************************************************************)
(* Bounds of the model                                                     *)
(***************************************************************************)
MaxErr == 2       \* distinct RuntimeError messages in the input trees
MaxItems == 3     \* length of the lists a TransformList is run on
MaxEdges == 2     \* number of edges in the edge collection
MaxSteps == 3     \* pre-execution steps of one WithPreExecution node

(***************************************************************************)
(* Runtime values of the generated JavaScript, tagged by typeof            *)
(***************************************************************************)
NullV == [t |-> "null"]
UndefinedV == [t |-> "undefined"]
BoolV(b) == [t |-> "boolean", v |-> b]
NumV(n) == [t |-> "number", v |-> n]
StrV(s) == [t |-> "string", v |-> s]
ObjV(f) == [t |-> "object", v |-> f]
ListV(s) == [t |-> "list", v |-> s]
\* an exception raised while the generated code runs (TypeError, ...)
RaiseV == [t |-> "raise"]
\* a const of the generated code before its initializer has completed
Uninitialized == [t |-> "uninitialized"]

(***************************************************************************)
(* Query nodes.  kids lists the object-valued fields in the order in which *)
(* the class assigns them, an array field giving one entry per element.    *)
(***************************************************************************)
Node(kind, a, kids) == [kind |-> kind, a |-> a, kids |-> kids]
Kid(key, node) == [key |-> key, node |-> node]
NoAttr == [none |-> TRUE]

RECURSIVE KidsOf(_, _)
KidsOf(key, nodes) ==
    IF nodes = <<>> THEN <<>> ELSE <<Kid(key, Head(nodes))>> \o KidsOf(key, Tail(nodes))

\* the nodes of field key, in order
Get(node, key) ==
    LET idx == {i \in 1..Len(node.kids) : node.kids[i].key = key}
    IN  [j \in 1..Cardinality(idx) |->
            node.kids[CHOOSE i \in idx : Cardinality({k \in idx : k < i}) = j - 1].node]
Get1(node, key) == Get(node, key)[1]

LiteralQueryNode(value) == Node("Literal", [value |-> value], <<>>)
NullQueryNode == Node("Null", NoAttr, <<>>)
ConstBoolQueryNode(value) == Node("ConstBool", [value |-> value], <<>>)
RuntimeErrorQueryNode(message) == Node("RuntimeError", [message |-> message], <<>>)
VariableQueryNode(label) == Node("Variable", [label |-> label], <<>>)
VariableAssignmentQueryNode(variableNode, variableValueNode, resultNode) ==
    Node("VariableAssignment", NoAttr,
         <<Kid("variableNode", variableNode), Kid("variableValueNode", variableValueNode),
           Kid("resultNode", resultNode)>>)
FieldQueryNode(objectNode, field, objectType) ==
    Node("Field", [field |-> field, objectType |-> objectType],
         <<Kid("objectNode", objectNode)>>)
RootEntityIDQueryNode(objectNode) ==
    Node("RootEntityID", NoAttr, <<Kid("objectNode", objectNode)>>)
PropertySpecification(propertyName, valueNode) ==
    Node("PropertySpecification", [propertyName |-> propertyName],
         <<Kid("valueNode", valueNode)>>)
ObjectQueryNode(properties) == Node("Object", NoAttr, KidsOf("properties", properties))
ListQueryNode(itemNodes) == Node("List", NoAttr, KidsOf("itemNodes", itemNodes))
ConditionalQueryNode(condition, expr1, expr2) ==
    Node("Conditional", NoAttr,
         <<Kid("condition", condition), Kid("expr1", expr1), Kid("expr2", expr2)>>)
BinaryOperationQueryNode(lhs, operator, rhs) ==
    Node("BinaryOperation", [operator |-> operator], <<Kid("lhs", lhs), Kid("rhs", rhs)>>)
EntitiesQueryNode(objectType) == Node("Entities", [objectType |-> objectType], <<>>)
OrderClause(valueNode, direction) ==
    Node("OrderClause", [direction |-> direction], <<Kid("valueNode", valueNode)>>)
OrderSpecification(clauses) == Node("OrderSpecification", NoAttr, KidsOf("clauses", clauses))
isUnordered(orderBy) == Len(orderBy.kids) = 0

\* The constructor takes an object of optional parameters.  The default
\* innerNode is the node that evaluates to the current list item; the
\* generator binds the current item to itemVariable.
TransformListQueryNode(params) ==
    LET itemVariable == IF "itemVariable" \in DOMAIN params
                        THEN params.itemVariable ELSE VariableQueryNode("item")
    IN  Node("TransformList",
             [maxCount |-> IF "maxCount" \in DOMAIN params THEN params.maxCount ELSE UndefinedV],
             << Kid("itemVariable", itemVariable),
                Kid("listNode", params.listNode),
                Kid("innerNode", IF "innerNode" \in DOMAIN params
                                 THEN params.innerNode ELSE itemVariable),
                Kid("filterNode", IF "filterNode" \in DOMAIN params
                                  THEN params.filterNode ELSE ConstBoolQueryNode(TRUE)),
                Kid("orderBy", IF "orderBy" \in DOMAIN params
                               THEN params.orderBy ELSE OrderSpecification(<<>>)) >>)

MergeObjectsQueryNode(objectNodes) ==
    Node("MergeObjects", NoAttr, KidsOf("objectNodes", objectNodes))
FirstOfListQueryNode(listNode) == Node("FirstOfList", NoAttr, <<Kid("listNode", listNode)>>)
EntityFromIdQueryNode(objectType, idNode) ==
    Node("EntityFromId", [objectType |-> objectType], <<Kid("idNode", idNode)>>)
DeleteEntitiesQueryNode(objectType, listNode, currentEntityVariable) ==
    Node("DeleteEntities", [objectType |-> objectType],
         <<Kid("listNode", listNode), Kid("currentEntityVariable", currentEntityVariable)>>)
UpdateEntitiesQueryNode(objectType, listNode, updates, currentEntityVariable) ==
    Node("UpdateEntities", [objectType |-> objectType],
         <<Kid("listNode", listNode)>> \o KidsOf("updates", updates)
             \o <<Kid("currentEntityVariable", currentEntityVariable)>>)
FollowEdgeQueryNode(edgeType, sourceEntityNode, sourceFieldSide) ==
    Node("FollowEdge", [edgeType |-> edgeType, sourceFieldSide |-> sourceFieldSide],
         <<Kid("sourceEntityNode", sourceEntityNode)>>)
\* existingEdge: fromIDNode and toIDNode are optional; newEdge has both
SetEdgeQueryNode(edgeType, existingEdge, newEdge) ==
    Node("SetEdge", [edgeType |-> edgeType],
         (IF "fromIDNode" \in DOMAIN existingEdge
          THEN <<Kid("existingEdge.fromIDNode", existingEdge.fromIDNode)>> ELSE <<>>)
             \o (IF "toIDNode" \in DOMAIN existingEdge
                 THEN <<Kid("existingEdge.toIDNode", existingEdge.toIDNode)>> ELSE <<>>)
             \o <<Kid("newEdge.fromIDNode", newEdge.fromIDNode),
                  Kid("newEdge.toIDNode", newEdge.toIDNode)>>)
CreateEntityQueryNode(objectType, objectNode) ==
    Node("CreateEntity", [objectType |-> objectType], <<Kid("objectNode", objectNode)>>)
ErrorIfNotTruthyResultValidator(message, name) ==
    [kind |-> "ErrorIfNotTruthy", message |-> message, name |-> name]
NoValidator == [kind |-> "none"]
\* params: query, and optionally resultVariable and resultValidator
PreExecQueryParms(params) ==
    Node("PreExecQueryParms",
         [resultValidator |-> IF "resultValidator" \in DOMAIN params
                              THEN params.resultValidator ELSE NoValidator],
         <<Kid("query", params.query)>>
             \o (IF "resultVariable" \in DOMAIN params
                 THEN <<Kid("resultVariable", params.resultVariable)>> ELSE <<>>))
WithPreExecutionQueryNode(resultNode, preExecQueries) ==
    Node("WithPreExecution", NoAttr,
         <<Kid("resultNode", resultNode)>> \o KidsOf("preExecQueries", preExecQueries))

\* node instanceof QueryNode
IsQueryNode(node) == node.kind \notin {"OrderSpecification", "OrderClause"}

(***************************************************************************)
(* Positions in a tree                                                     *)
(***************************************************************************)
RECURSIVE NodeAt(_, _)
NodeAt(t, p) == IF p = <<>> THEN t ELSE NodeAt(t.kids[Head(p)].node, Tail(p))

RECURSIVE ReplaceAt(_, _, _)
ReplaceAt(t, p, n) ==
    IF p = <<>> THEN n
    ELSE [t EXCEPT !.kids[Head(p)].node = ReplaceAt(@, Tail(p), n)]

Front(p) == SubSeq(p, 1, Len(p) - 1)
Last(p) == p[Len(p)]
KeyAt(t, p) == IF p = <<>> THEN "" ELSE NodeAt(t, Front(p)).kids[Last(p)].key
IsPrefix(p, q) == Len(p) <= Len(q) /\ SubSeq(q, 1, Len(p)) = p

RECURSIVE Paths(_)
Paths(t) ==
    {<<>>} \cup UNION {{<<i>> \o q : q \in Paths(t.kids[i].node)} : i \in 1..Len(t.kids)}

\* visitObject: where the traversal goes once the node at p is finished
AfterNode(t, p) ==
    IF p = <<>> THEN [path |-> <<>>, dir |-> "end"]
    ELSE IF Last(p) < Len(NodeAt(t, Front(p)).kids)
         THEN [path |-> Front(p) \o <<Last(p) + 1>>, dir |-> "enter"]
         ELSE [path |-> Front(p), dir |-> "leave"]
\* visitObject: where the traversal goes once the node at p is entered
AfterEnter(t, p) ==
    IF Len(NodeAt(t, p).kids) > 0
    THEN [path |-> p \o <<1>>, dir |-> "enter"]
    ELSE [path |-> p, dir |-> "leave"]

(***************************************************************************)
(* Schema of the modelled project: object types, their fields, relations   *)
(***************************************************************************)
getFields(objectType) ==
    CASE objectType = "User" -> {"name", "docs", "tags", "memos", "notes", "accessGroup"}
      [] objectType = "Doc" -> {"title", "owner", "accessGroup"}
      [] objectType = "Memo" -> {"text", "accessGroup"}
      [] objectType = "Note" -> {"text", "accessGroup"}
      [] OTHER -> {"label"}
\* the type of a field and the kind of its definition
getFieldType(objectType, field) ==
    CASE field = "accessGroup" /\ objectType = "Memo" -> "Scope"
      [] field = "accessGroup" /\ objectType = "Note" -> "AG"
      [] OTHER -> "String"
getTypeKind(typeName) ==
    CASE typeName = "Scope" -> "OBJECT_TYPE_DEFINITION"
      [] typeName = "AG" -> "ENUM_TYPE_DEFINITION"
      [] OTHER -> "SCALAR_TYPE_DEFINITION"
RootEntityTypes == <<"User", "Doc", "Tag", "Memo", "Note">>

\* "" stands for a side that declares no field (getFieldOfSide gives undefined)
UserDocs == [name |-> "User_docs", fromType |-> "User", fromField |-> "docs",
             toType |-> "Doc", toField |-> "owner"]
UserTags == [name |-> "User_tags", fromType |-> "User", fromField |-> "tags",
             toType |-> "Tag", toField |-> ""]
UserMemos == [name |-> "User_memos", fromType |-> "User", fromField |-> "memos",
              toType |-> "Memo", toField |-> ""]
UserNotes == [name |-> "User_notes", fromType |-> "User", fromField |-> "notes",
              toType |-> "Note", toField |-> ""]
getTypeOfSide(edgeType, side) ==
    IF side = "FROM_SIDE" THEN edgeType.fromType ELSE edgeType.toType
getFieldOfSide(edgeType, side) ==
    IF side = "FROM_SIDE" THEN edgeType.fromField ELSE edgeType.toField
invertRelationFieldEdgeSide(side) == IF side = "FROM_SIDE" THEN "TO_SIDE" ELSE "FROM_SIDE"

PermissionResult == {"GRANTED", "DENIED", "CONDITIONAL"}
AUTHORIZATION_ERROR_NAME == "AuthorizationError"

\* getPermissionDescriptor(type, field).canAccess(authContext, operation); field
\* "" is the descriptor of the type itself
canAccess(ctx, objectType, field, operation) == ctx[<<objectType, field, operation>>]

\* the access groups the roles of the request may use
PermittedAccessGroups == {"public"}
\* PermissionDescriptor.getAccessCondition: a boolean node over instanceNode
getAccessCondition(ctx, operation, instanceNode) ==
    Node("AccessCondition", [operation |-> operation], <<Kid("instanceNode", instanceNode)>>)
getExplanationForCondition(ctx, operation, context) == "set objects with this access group"

(***************************************************************************)
(* Authorization transformers                                              *)
(***************************************************************************)
\* an Error thrown by a transformer, in place of its return value
Throw(message) == Node("Throw", [message |-> message], <<>>)

transformFieldQueryNode_swallowsConditional(node, ctx) ==
    LET access == canAccess(ctx, node.a.objectType, node.a.field, "READ")
    IN  CASE access = "GRANTED" -> node
          [] access = "DENIED" ->
                RuntimeErrorQueryNode(<<"Not authorized to read ", node.a.objectType, ".",
                                        node.a.field>>)
          [] OTHER ->
                RuntimeErrorQueryNode(<<"Not authorized to read ", node.a.objectType, ".",
                                        node.a.field>>)

transformFieldQueryNode_copies(node, ctx) ==
    LET access == canAccess(ctx, node.a.objectType, node.a.field, "READ")
    IN  CASE access = "GRANTED" -> FieldQueryNode(NullQueryNode, node.a.field, node.a.objectType)
          [] access = "DENIED" ->
                RuntimeErrorQueryNode(<<"Not authorized to read ", node.a.objectType, ".",
                                        node.a.field>>)
          [] OTHER ->
                Throw(<<"Permission profiles with accessGroup restrictions are currently not supported on fields, but used in ",
                        node.a.objectType, ".", node.a.field>>)

transformFieldQueryNode_dropsField(node, ctx) ==
    LET access == canAccess(ctx, node.a.objectType, node.a.field, "READ")
    IN  CASE access = "GRANTED" -> node
          [] access = "DENIED" ->
                RuntimeErrorQueryNode(<<"Not authorized to read ", node.a.objectType>>)
          [] OTHER ->
                Throw(<<"Permission profiles with accessGroup restrictions are currently not supported on fields, but used in ",
                        node.a.objectType, ".", node.a.field>>)

transformFieldQueryNode(node, ctx) ==
    LET access == canAccess(ctx, node.a.objectType, node.a.field, "READ")
    IN  CASE access = "GRANTED" -> node
          [] access = "DENIED" ->
                RuntimeErrorQueryNode(<<"Not authorized to read ", node.a.objectType, ".",
                                        node.a.field>>)
          [] OTHER ->
                Throw(<<"Permission profiles with accessGroup restrictions are currently not supported on fields, but used in ",
                        node.a.objectType, ".", node.a.field>>)

transformCreateEntityQueryNode_noValidator(node, ctx) ==
    LET access == canAccess(ctx, node.a.objectType, "", "WRITE")
    IN  CASE access = "GRANTED" -> node
          [] access = "DENIED" ->
                RuntimeErrorQueryNode(<<AUTHORIZATION_ERROR_NAME, ": Not authorized to create ",
                                        node.a.objectType, " objects">>)
          [] OTHER ->
                LET condition == getAccessCondition(ctx, "WRITE", Get1(node, "objectNode"))
                    explanation == getExplanationForCondition(ctx, "WRITE", "SET")
                IN  WithPreExecutionQueryNode(node,
                        << PreExecQueryParms(
                               [query |-> condition,
                                resultValidator |-> NoValidator]) >>)

transformCreateEntityQueryNode(node, ctx) ==
    LET access == canAccess(ctx, node.a.objectType, "", "WRITE")
    IN  CASE access = "GRANTED" -> node
          [] access = "DENIED" ->
                RuntimeErrorQueryNode(<<AUTHORIZATION_ERROR_NAME, ": Not authorized to create ",
                                        node.a.objectType, " objects">>)
          [] OTHER ->
                LET condition == getAccessCondition(ctx, "WRITE", Get1(node, "objectNode"))
                    explanation == getExplanationForCondition(ctx, "WRITE", "SET")
                IN  WithPreExecutionQueryNode(node,
                        << PreExecQueryParms(
                               [query |-> condition,
                                resultValidator |->
                                    ErrorIfNotTruthyResultValidator(
                                        <<"Not authorized to ", explanation>>,
                                        AUTHORIZATION_ERROR_NAME)]) >>)

transformFollowEdgeQueryNode_ignoresFieldDenial(node, ctx) ==
    LET sourceType == getTypeOfSide(node.a.edgeType, node.a.sourceFieldSide)
        sourceField == getFieldOfSide(node.a.edgeType, node.a.sourceFieldSide)
        access == canAccess(ctx, sourceType, sourceField, "READ")
        targetType == getTypeOfSide(node.a.edgeType,
                                    invertRelationFieldEdgeSide(node.a.sourceFieldSide))
        entityAccess == canAccess(ctx, targetType, "", "READ")
    IN  IF sourceField = ""
        THEN Throw(<<"Encountered FollowEdgeQueryNode which traverses via non-existing inverse field (on ",
                     sourceType, ")">>)
        ELSE CASE access = "DENIED" -> node
               [] access = "CONDITIONAL" ->
                    Throw(<<"Permission profiles with accessGroup restrictions are currently not supported on fields, but used in ",
                            sourceType, ".", sourceField>>)
               [] OTHER ->
                    CASE entityAccess = "GRANTED" -> node
                      [] entityAccess = "DENIED" ->
                            RuntimeErrorQueryNode(<<"Not authorized to read ", targetType,
                                                    " objects by following ", sourceType, ".",
                                                    sourceField>>)
                      [] OTHER ->
                            IF "accessGroup" \notin getFields(targetType)
                            THEN Throw(<<"Root entity ", targetType,
                                         " has an accessGroup-based permission profile, but no accessGroup field">>)
                            ELSE LET itemVar == VariableQueryNode("item")
                                     accessGroupNode ==
                                         FieldQueryNode(itemVar, "accessGroup", targetType)
                                     condition ==
                                         getAccessCondition(ctx, "READ", accessGroupNode)
                                 IN  TransformListQueryNode(
                                         [listNode |-> node, filterNode |-> condition,
                                          itemVariable |-> itemVar])

transformFollowEdgeQueryNode_unfiltered(node, ctx) ==
    LET sourceType == getTypeOfSide(node.a.edgeType, node.a.sourceFieldSide)
        sourceField == getFieldOfSide(node.a.edgeType, node.a.sourceFieldSide)
        access == canAccess(ctx, sourceType, sourceField, "READ")
        targetType == getTypeOfSide(node.a.edgeType,
                                    invertRelationFieldEdgeSide(node.a.sourceFieldSide))
        entityAccess == canAccess(ctx, targetType, "", "READ")
    IN  IF sourceField = ""
        THEN Throw(<<"Encountered FollowEdgeQueryNode which traverses via non-existing inverse field (on ",
                     sourceType, ")">>)
        ELSE CASE access = "DENIED" ->
                    RuntimeErrorQueryNode(<<"Not authorized to read ", sourceType, ".", sourceField>>)
               [] access = "CONDITIONAL" ->
                    Throw(<<"Permission profiles with accessGroup restrictions are currently not supported on fields, but used in ",
                            sourceType, ".", sourceField>>)
               [] OTHER ->
                    CASE entityAccess = "GRANTED" -> node
                      [] entityAccess = "DENIED" ->
                            RuntimeErrorQueryNode(<<"Not authorized to read ", targetType,
                                                    " objects by following ", sourceType, ".",
                                                    sourceField>>)
                      [] OTHER ->
                            IF "accessGroup" \notin getFields(targetType)
                            THEN Throw(<<"Root entity ", targetType,
                                         " has an accessGroup-based permission profile, but no accessGroup field">>)
                            ELSE LET itemVar == VariableQueryNode("item")
                                     accessGroupNode ==
                                         FieldQueryNode(itemVar, "accessGroup", targetType)
                                     condition ==
                                         getAccessCondition(ctx, "READ", accessGroupNode)
                                 IN  TransformListQueryNode(
                                         [listNode |-> node, itemVariable |-> itemVar])

\* the field is looked up under another name than the validator checks
transformFollowEdgeQueryNode_wantsGroupsField(node, ctx) ==
    LET sourceType == getTypeOfSide(node.a.edgeType, node.a.sourceFieldSide)
        sourceField == getFieldOfSide(node.a.edgeType, node.a.sourceFieldSide)
        access == canAccess(ctx, sourceType, sourceField, "READ")
        targetType == getTypeOfSide(node.a.edgeType,
                                    invertRelationFieldEdgeSide(node.a.sourceFieldSide))
        entityAccess == canAccess(ctx, targetType, "", "READ")
    IN  IF sourceField = ""
        THEN Throw(<<"Encountered FollowEdgeQueryNode which traverses via non-existing inverse field (on ",
                     sourceType, ")">>)
        ELSE CASE access = "DENIED" ->
                    RuntimeErrorQueryNode(<<"Not authorized to read ", sourceType, ".", sourceField>>)
               [] access = "CONDITIONAL" ->
                    Throw(<<"Permission profiles with accessGroup restrictions are currently not supported on fields, but used in ",
                            sourceType, ".", sourceField>>)
               [] OTHER ->
                    CASE entityAccess = "GRANTED" -> node
                      [] entityAccess = "DENIED" ->
                            RuntimeErrorQueryNode(<<"Not authorized to read ", targetType,
                                                    " objects by following ", sourceType, ".",
                                                    sourceField>>)
                      [] OTHER ->
                            IF "accessGroups" \notin getFields(targetType)
                            THEN Throw(<<"Root entity ", targetType,
                                         " has an accessGroup-based permission profile, but no accessGroup field">>)
                            ELSE LET itemVar == VariableQueryNode("item")
                                     accessGroupNode ==
                                         FieldQueryNode(itemVar, "accessGroup", targetType)
                                     condition ==
                                         getAccessCondition(ctx, "READ", accessGroupNode)
                                 IN  TransformListQueryNode(
                                         [listNode |-> node, filterNode |-> condition,
                                          itemVariable |-> itemVar])

transformFollowEdgeQueryNode(node, ctx) ==
    LET sourceType == getTypeOfSide(node.a.edgeType, node.a.sourceFieldSide)
        sourceField == getFieldOfSide(node.a.edgeType, node.a.sourceFieldSide)
        access == canAccess(ctx, sourceType, sourceField, "READ")
        targetType == getTypeOfSide(node.a.edgeType,
                                    invertRelationFieldEdgeSide(node.a.sourceFieldSide))
        entityAccess == canAccess(ctx, targetType, "", "READ")
    IN  IF sourceField = ""
        THEN Throw(<<"Encountered FollowEdgeQueryNode which traverses via non-existing inverse field (on ",
                     sourceType, ")">>)
        ELSE CASE access = "DENIED" ->
                    RuntimeErrorQueryNode(<<"Not authorized to read ", sourceType, ".", sourceField>>)
               [] access = "CONDITIONAL" ->
                    Throw(<<"Permission profiles with accessGroup restrictions are currently not supported on fields, but used in ",
                            sourceType, ".", sourceField>>)
               [] OTHER ->
                    CASE entityAccess = "GRANTED" -> node
                      [] entityAccess = "DENIED" ->
                            RuntimeErrorQueryNode(<<"Not authorized to read ", targetType,
                                                    " objects by following ", sourceType, ".",
                                                    sourceField>>)
                      [] OTHER ->
                            IF "accessGroup" \notin getFields(targetType)
                            THEN Throw(<<"Root entity ", targetType,
                                         " has an accessGroup-based permission profile, but no accessGroup field">>)
                            ELSE LET itemVar == VariableQueryNode("item")
                                     accessGroupNode ==
                                         FieldQueryNode(itemVar, "accessGroup", targetType)
                                     condition ==
                                         getAccessCondition(ctx, "READ", accessGroupNode)
                                 IN  TransformListQueryNode(
                                         [listNode |-> node, filterNode |-> condition,
                                          itemVariable |-> itemVar])

\* the transformer registered for the class of the node, if there is one
transformNode(node, ctx) ==
    CASE node.kind = "Field" -> transformFieldQueryNode(node, ctx)
      [] node.kind = "CreateEntity" -> transformCreateEntityQueryNode(node, ctx)
      [] node.kind = "FollowEdge" -> transformFollowEdgeQueryNode(node, ctx)
      [] OTHER -> node

\* the permission checks the transformers can make on a tree
RECURSIVE Checks(_)
Checks(t) ==
    LET own ==
          CASE t.kind = "Field" -> {<<t.a.objectType, t.a.field, "READ">>}
            [] t.kind = "CreateEntity" -> {<<t.a.objectType, "", "WRITE">>}
            [] t.kind = "FollowEdge" ->
                  {<<getTypeOfSide(t.a.edgeType, t.a.sourceFieldSide),
                     getFieldOfSide(t.a.edgeType, t.a.sourceFieldSide), "READ">>,
                   <<getTypeOfSide(t.a.edgeType, invertRelationFieldEdgeSide(t.a.sourceFieldSide)),
                     "", "READ">>}
            [] OTHER -> {}
    IN  own \cup UNION {Checks(t.kids[i].node) : i \in 1..Len(t.kids)}

(***************************************************************************)
(* moveErrorsToOutputNodes                                                 *)
(***************************************************************************)
outputNodesMap(clazz) ==
    CASE clazz = "VariableAssignment" -> {"resultNode"}
      [] clazz = "Object" -> {"properties"}
      [] clazz = "PropertySpecification" -> {"valueNode"}
      [] clazz = "List" -> {"itemNodes"}
      [] clazz = "Conditional" -> {"expr1", "expr2"}
      [] clazz = "TransformList" -> {"innerNode"}
      [] OTHER -> {}

isOutputNode_always(clazz, fieldName) == TRUE

isOutputNode(clazz, fieldName) == fieldName \in outputNodesMap(clazz)

\* errors.map(err => err.message).join(', ')
RECURSIVE joinMessages(_)
joinMessages(errors) ==
    IF errors = <<>> THEN <<>>
    ELSE IF Len(errors) = 1 THEN errors[1].node.a.message
    ELSE errors[1].node.a.message \o <<", ">> \o joinMessages(Tail(errors))

\* enter(node, key): at is the position of node, standing for its identity
enter(node, key, stk, errors, at) ==
    IF ~IsQueryNode(node)
    THEN [action |-> "SKIP_NODE", stack |-> stk, errorList |-> errors]
    ELSE [action |-> "VISIT",
          errorList |-> IF node.kind = "RuntimeError"
                        THEN Append(errors, [node |-> node, at |-> at]) ELSE errors,
          stack |-> IF Len(stk) = 0
                    THEN Append(stk, [clazz |-> node.kind, isOutputNode |-> TRUE])
                    ELSE LET parentFrame == stk[Len(stk)]
                         IN  Append(stk, [clazz |-> node.kind,
                                         isOutputNode |-> parentFrame.isOutputNode
                                             /\ isOutputNode(parentFrame.clazz, key)])]

leave_joinsReversed(node, frame, errors) ==
    IF frame.isOutputNode /\ Len(errors) > 0
    THEN [ret |-> IF Len(errors) = 1 THEN errors[1].node
                  ELSE RuntimeErrorQueryNode(
                           joinMessages([i \in 1..Len(errors) |-> errors[Len(errors) + 1 - i]])),
          errorList |-> <<>>]
    ELSE [ret |-> node, errorList |-> errors]

leave(node, frame, errors) ==
    IF frame.isOutputNode /\ Len(errors) > 0
    THEN [ret |-> IF Len(errors) = 1 THEN errors[1].node
                  ELSE RuntimeErrorQueryNode(joinMessages(errors)),
          errorList |-> <<>>]
    ELSE [ret |-> node, errorList |-> errors]

NoCall == [called |-> FALSE]

(***************************************************************************)
(* What the generated JavaScript evaluates to                              *)
(***************************************************************************)
Truthy(v) ==
    CASE v.t \in {"null", "undefined"} -> FALSE
      [] v.t = "boolean" -> v.v
      [] v.t = "number" -> v.v # 0
      [] v.t = "string" -> v.v # ""
      [] OTHER -> TRUE

IsRaise(v) == v.t = "raise"
NoVariables == [x \in {} |-> NullV]
Bind(env, label, v) == (label :> v) @@ env
Min(a, b) == IF a < b THEN a ELSE b

\* the elements of s at the indexes in idx, in the order of s
RECURSIVE Pick(_, _, _)
Pick(s, idx, i) ==
    IF i > Len(s) THEN <<>>
    ELSE (IF i \in idx THEN <<s[i]>> ELSE <<>>) \o Pick(s, idx, i + 1)

\* value of the object literal of the generated code: later properties win
ObjectOf(names, values) ==
    ObjV([n \in {names[i] : i \in 1..Len(names)} |->
            values[CHOOSE i \in 1..Len(names) :
                      names[i] = n /\ \A j \in 1..Len(names) : names[j] = n => j <= i]])

RuntimeErrorValue(message) ==
    ObjV([cruddl_runtime_error |-> [t |-> "text", v |-> message]])

\* object[identifier] and object.identifier of JavaScript
Member(object, identifier) ==
    CASE object.t \in {"null", "undefined"} -> RaiseV
      [] object.t = "object" ->
            IF identifier \in DOMAIN object.v THEN object.v[identifier] ELSE UndefinedV
      [] OTHER -> UndefinedV

\* support.compare: a total order over the values of all types
TypeRank(v) ==
    CASE v.t \in {"null", "undefined"} -> 0
      [] v.t = "boolean" -> 1
      [] v.t = "number" -> 2
      [] v.t = "string" -> 3
      [] v.t = "list" -> 4
      [] OTHER -> 5
compare(a, b) ==
    IF TypeRank(a) # TypeRank(b)
    THEN (IF TypeRank(a) < TypeRank(b) THEN -1 ELSE 1)
    ELSE CASE a.t = "number" -> (IF a.v < b.v THEN -1 ELSE IF a.v > b.v THEN 1 ELSE 0)
           [] a.t = "boolean" -> (IF a.v = b.v THEN 0 ELSE IF b.v THEN -1 ELSE 1)
           [] OTHER -> 0

\* support.getMultiComparator: keysA and keysB hold the values of the clauses
RECURSIVE multiCompare(_, _, _, _)
multiCompare(keysA, keysB, inverted, i) ==
    IF i > Len(inverted) THEN 0
    ELSE LET c == compare(keysA[i], keysB[i])
         IN  IF c # 0 THEN (IF inverted[i] THEN -c ELSE c)
             ELSE multiCompare(keysA, keysB, inverted, i + 1)

\* Array.prototype.sort, stable: entries are records [item, keys]
RECURSIVE InsertSorted(_, _, _)
InsertSorted(sorted, e, inverted) ==
    IF sorted = <<>> THEN <<e>>
    ELSE IF multiCompare(Head(sorted).keys, e.keys, inverted, 1) <= 0
         THEN <<Head(sorted)>> \o InsertSorted(Tail(sorted), e, inverted)
         ELSE <<e>> \o sorted
RECURSIVE StableSort(_, _, _)
StableSort(entries, n, inverted) ==
    IF n = 0 THEN <<>>
    ELSE InsertSorted(StableSort(entries, n - 1, inverted), entries[n], inverted)

\* the access-group test of the condition node of a permission descriptor
AccessGroupOf(v) == IF v.t = "object" THEN Member(v, "accessGroup") ELSE v
Permitted(v) == AccessGroupOf(v) \in {StrV(g) : g \in PermittedAccessGroups}

\* an id that no entity has gives an object with nothing but the id
FindByID_stubForMissing(collection, id) ==
    LET hits == {i \in 1..Len(collection) : Member(collection[i], "id") = id}
    IN  IF hits = {} THEN ObjV([id |-> id])
        ELSE collection[CHOOSE i \in hits : \A j \in hits : i <= j]

FindByID(collection, id) ==
    LET hits == {i \in 1..Len(collection) : Member(collection[i], "id") = id}
    IN  IF hits = {} THEN UndefinedV
        ELSE collection[CHOOSE i \in hits : \A j \in hits : i <= j]

\* the arguments of support.getMultiComparator: per clause the node of the
\* value lambda and the invert flag
getComparatorForOrderSpecification_neverInverts(orderBy) ==
    LET clauses == Get(orderBy, "clauses")
    IN  [c \in 1..Len(clauses) |->
            [valueNode |-> Get1(clauses[c], "valueNode"), invert |-> FALSE]]

getComparatorForOrderSpecification(orderBy) ==
    LET clauses == Get(orderBy, "clauses")
    IN  [c \in 1..Len(clauses) |->
            [valueNode |-> Get1(clauses[c], "valueNode"),
             invert |-> clauses[c].a.direction = "DESCENDING"]]

\* .filter(f).slice().sort(cmp).slice(0, maxCount).map(g) over the items of a
\* list; passes, keys and mapped give the values of the lambdas per index
TransformItems_capFirst(items, isFiltered, passes, inverted, keys, maxCount, isMapped, mapped) ==
    LET idx == [i \in 1..Len(items) |-> i]
        capped == IF maxCount.t = "undefined" THEN idx
                  ELSE SubSeq(idx, 1, Min(maxCount.v, Len(idx)))
        filtered == IF isFiltered
                    THEN Pick(capped, {i \in 1..Len(capped) : Truthy(passes[capped[i]])}, 1)
                    ELSE capped
        entries == [i \in 1..Len(filtered) |-> [item |-> filtered[i], keys |-> keys[filtered[i]]]]
        sorted == IF Len(inverted) > 0 THEN StableSort(entries, Len(entries), inverted)
                  ELSE entries
        out == [i \in 1..Len(sorted) |->
                   IF isMapped THEN mapped[sorted[i].item] ELSE items[sorted[i].item]]
    IN  IF isFiltered /\ \E i \in 1..Len(items) : IsRaise(passes[i]) THEN RaiseV
        ELSE IF \E i \in 1..Len(out) : IsRaise(out[i]) THEN RaiseV
        ELSE ListV(out)

TransformItems(items, isFiltered, passes, inverted, keys, maxCount, isMapped, mapped) ==
    LET idx == [i \in 1..Len(items) |-> i]
        filtered == IF isFiltered
                    THEN Pick(idx, {i \in 1..Len(items) : Truthy(passes[i])}, 1)
                    ELSE idx
        entries == [i \in 1..Len(filtered) |-> [item |-> filtered[i], keys |-> keys[filtered[i]]]]
        sorted == IF Len(inverted) > 0 THEN StableSort(entries, Len(entries), inverted)
                  ELSE entries
        capped == IF maxCount.t = "undefined" THEN sorted
                  ELSE SubSeq(sorted, 1, Min(maxCount.v, Len(sorted)))
        out == [i \in 1..Len(capped) |->
                   IF isMapped THEN mapped[capped[i].item] ELSE items[capped[i].item]]
    IN  IF isFiltered /\ \E i \in 1..Len(items) : IsRaise(passes[i]) THEN RaiseV
        ELSE IF \E i \in 1..Len(out) : IsRaise(out[i]) THEN RaiseV
        ELSE ListV(out)

\* the own enumerable properties of a value, as Object.assign reads them
OwnProperties(v) ==
    CASE v.t = "object" -> v.v
      [] v.t = "list" -> [k \in {ToString(i - 1) : i \in 1..Len(v.v)} |->
                             v.v[CHOOSE i \in 1..Len(v.v) : ToString(i - 1) = k]]
      [] OTHER -> [k \in {} |-> NullV]

\* Object.assign(target, ...sources): the target after the call
RECURSIVE ObjectAssign(_, _)
ObjectAssign(target, sources) ==
    IF sources = <<>> THEN target
    ELSE ObjectAssign(ObjV(OwnProperties(Head(sources)) @@ target.v), Tail(sources))

\* (list)[0]
FirstOfList(list) ==
    CASE list.t \in {"null", "undefined"} -> RaiseV
      [] list.t = "list" -> IF Len(list.v) > 0 THEN list.v[1] ELSE UndefinedV
      [] OTHER -> UndefinedV

\* (typeof object == 'object' && object != null) ? object[identifier] : null
Field_withoutNullCheck(object, identifier) == Member(object, identifier)

Field(object, identifier) ==
    IF object.t \in {"object", "list"} THEN Member(object, identifier) ELSE NullV

\* the characters of the strings of the model
Chars(s) ==
    CASE s = "" -> <<>>
      [] s = "7" -> <<"7">>
      [] s = "am" -> <<"a", "m">>
      [] s = "name" -> <<"n", "a", "m", "e">>
      [] s = "null" -> <<"n", "u", "l", "l">>
      [] s = "7,name" -> <<"7", ",", "n", "a", "m", "e">>
      [] OTHER -> <<s>>
\* String(v); Array.prototype.toString joins the elements with ","
RECURSIVE String(_)
RECURSIVE Joined(_, _)
Joined(list, i) ==
    IF i > Len(list) THEN <<>>
    ELSE (IF i > 1 THEN <<",">> ELSE <<>>)
            \o (IF list[i].t \in {"null", "undefined"} THEN <<>> ELSE String(list[i]))
            \o Joined(list, i + 1)
String(v) ==
    CASE v.t = "string" -> Chars(v.v)
      [] v.t = "number" -> Chars(ToString(v.v))
      [] v.t = "boolean" -> IF v.v THEN <<"t", "r", "u", "e">> ELSE <<"f", "a", "l", "s", "e">>
      [] v.t = "null" -> Chars("null")
      [] v.t = "undefined" -> <<"u", "n", "d", "e", "f", "i", "n", "e", "d">>
      [] v.t = "list" -> Joined(v.v, 1)
      [] OTHER -> <<"[object Object]">>
\* Array.isArray(v) ? v : String(v)
listOrString(v) == IF v.t = "list" THEN v ELSE [t |-> "chars", v |-> String(v)]
\* container.includes(element) of an array (SameValueZero: a string is found
\* if an element is this string, an array built by the other operand is no
\* element) and of a string (the element as a string is a part of it)
includes(container, element) ==
    IF container.t = "list"
    THEN element.t = "chars"
            /\ \E i \in 1..Len(container.v) :
                   container.v[i].t = "string" /\ Chars(container.v[i].v) = element.v
    ELSE LET part == IF element.t = "list" THEN String(element) ELSE element.v
         IN  \E k \in 0..(Len(container.v) - Len(part)) :
                SubSeq(container.v, k + 1, k + Len(part)) = part

RECURSIVE Eval(_, _, _)
RECURSIVE MergeObjects(_, _, _)
RECURSIVE Run(_, _, _)
Eval(node, env, database) ==
    LET kid(key) == Eval(Get1(node, key), env, database)
    IN  CASE node.kind = "Literal" -> node.a.value
          [] node.kind = "Null" -> NullV
          [] node.kind = "ConstBool" -> BoolV(node.a.value)
          [] node.kind = "RuntimeError" -> RuntimeErrorValue(node.a.message)
          [] node.kind = "Variable" ->
                \* reading a const inside its own initializer is a ReferenceError
                IF env[node.a.label] = Uninitialized THEN RaiseV ELSE env[node.a.label]
          [] node.kind = "VariableAssignment" ->
                \* const tmpVar = value; return result: the constant is declared
                \* in the function in which its initializer is evaluated
                LET value == Eval(Get1(node, "variableValueNode"),
                                  Bind(env, Get1(node, "variableNode").a.label, Uninitialized),
                                  database)
                IN  IF IsRaise(value) THEN RaiseV
                    ELSE Eval(Get1(node, "resultNode"),
                              Bind(env, Get1(node, "variableNode").a.label, value), database)
          [] node.kind = "Object" ->
                LET props == Get(node, "properties")
                    values == [i \in 1..Len(props) |->
                                  Eval(Get1(props[i], "valueNode"), env, database)]
                IN  IF \E i \in 1..Len(props) : IsRaise(values[i]) THEN RaiseV
                    ELSE ObjectOf([i \in 1..Len(props) |-> props[i].a.propertyName], values)
          [] node.kind = "List" ->
                LET items == Get(node, "itemNodes")
                    values == [i \in 1..Len(items) |-> Eval(items[i], env, database)]
                IN  IF \E i \in 1..Len(items) : IsRaise(values[i]) THEN RaiseV
                    ELSE ListV(values)
          [] node.kind = "Field" ->
                LET object == kid("objectNode")
                IN  IF IsRaise(object) THEN RaiseV ELSE Field(object, node.a.field)
          [] node.kind = "RootEntityID" ->
                LET object == kid("objectNode")
                IN  IF IsRaise(object) THEN RaiseV ELSE Member(object, "id")
          [] node.kind = "Conditional" ->
                LET cond == kid("condition")
                IN  IF IsRaise(cond) THEN RaiseV
                    ELSE IF Truthy(cond) THEN kid("expr1") ELSE kid("expr2")
          [] node.kind = "BinaryOperation" ->
                LET lhs == kid("lhs")
                IN  IF IsRaise(lhs) THEN RaiseV
                    ELSE CASE node.a.operator = "AND" -> IF Truthy(lhs) THEN kid("rhs") ELSE lhs
                           [] node.a.operator = "OR" -> IF Truthy(lhs) THEN lhs ELSE kid("rhs")
                           [] OTHER ->
                                LET rhs == kid("rhs")
                                IN  IF IsRaise(rhs) THEN RaiseV
                                    ELSE CASE node.a.operator = "EQUAL" -> BoolV(lhs = rhs)
                                           [] node.a.operator = "UNEQUAL" -> BoolV(lhs # rhs)
                                           [] node.a.operator = "LESS_THAN" ->
                                                BoolV(compare(lhs, rhs) < 0)
                                           [] node.a.operator = "CONTAINS" ->
                                                BoolV(includes(listOrString(lhs),
                                                               listOrString(rhs)))
                                           [] node.a.operator = "IN" ->
                                                BoolV(includes(listOrString(rhs),
                                                               listOrString(lhs)))
                                           [] OTHER -> BoolV(compare(lhs, rhs) > 0)
          [] node.kind = "MergeObjects" -> MergeObjects(node, env, database).val
          [] node.kind = "FirstOfList" ->
                LET list == kid("listNode")
                IN  IF IsRaise(list) THEN RaiseV ELSE FirstOfList(list)
          [] node.kind = "AccessCondition" ->
                LET instance == kid("instanceNode")
                IN  IF IsRaise(instance) THEN RaiseV ELSE BoolV(Permitted(instance))
          [] node.kind = "Entities" -> ListV(database.collections[node.a.objectType])
          [] node.kind = "FollowEdge" ->
                LET edgeType == node.a.edgeType
                    fromSide == node.a.sourceFieldSide = "FROM_SIDE"
                    targetColl == database.collections[
                        getTypeOfSide(edgeType, invertRelationFieldEdgeSide(node.a.sourceFieldSide))]
                    edgeColl == database.edges[edgeType.name]
                    sourceID == Eval(RootEntityIDQueryNode(Get1(node, "sourceEntityNode")),
                                     env, database)
                    ofSource == Pick(edgeColl,
                                     {i \in 1..Len(edgeColl) :
                                         (IF fromSide THEN edgeColl[i].from ELSE edgeColl[i].to)
                                             = sourceID}, 1)
                    found == [i \in 1..Len(ofSource) |->
                                 FindByID(targetColl,
                                          IF fromSide THEN ofSource[i].to ELSE ofSource[i].from)]
                IN  IF Len(edgeColl) = 0 THEN ListV(<<>>)
                    ELSE IF IsRaise(sourceID) THEN RaiseV
                    ELSE ListV(Pick(found, {i \in 1..Len(found) : Truthy(found[i])}, 1))
          [] node.kind = "TransformList" ->
                LET list == kid("listNode")
                    itemVar == Get1(node, "itemVariable").a.label
                    filterNode == Get1(node, "filterNode")
                    clauses == Get(Get1(node, "orderBy"), "clauses")
                    comparator == getComparatorForOrderSpecification(Get1(node, "orderBy"))
                    isFiltered == ~(filterNode.kind = "ConstBool" /\ filterNode.a.value = TRUE)
                    isMapped == Get1(node, "innerNode") # Get1(node, "itemVariable")
                    isPlain == ~isFiltered /\ Len(clauses) = 0 /\ node.a.maxCount.t = "undefined"
                                  /\ ~isMapped
                    with(i) == Bind(env, itemVar, list.v[i])
                IN  IF IsRaise(list) \/ isPlain THEN list
                    ELSE IF list.t # "list" THEN RaiseV
                    ELSE TransformItems(
                             list.v, isFiltered,
                             [i \in 1..Len(list.v) |-> Eval(filterNode, with(i), database)],
                             [c \in 1..Len(comparator) |-> comparator[c].invert],
                             [i \in 1..Len(list.v) |->
                                 [c \in 1..Len(comparator) |->
                                     Eval(comparator[c].valueNode, with(i), database)]],
                             node.a.maxCount, isMapped,
                             [i \in 1..Len(list.v) |->
                                 Eval(Get1(node, "innerNode"), with(i), database)])
          [] OTHER -> RaiseV

\* Object.assign(first, ...rest): the first operand, an object of the
\* database, takes the properties
MergeObjects_assignsToFirst(node, env, database) ==
    LET objectNodes == Get(node, "objectNodes")
        objectList == [i \in 1..Len(objectNodes) |-> Run(objectNodes[i], env, database).val]
        merged == ObjectAssign(objectList[1], Tail(objectList))
    IN  IF \E i \in 1..Len(objectList) : IsRaise(objectList[i])
        THEN [val |-> RaiseV, db |-> database]
        ELSE IF Len(objectList) = 0 \/ objectList[1].t # "object"
        THEN [val |-> ObjectAssign(ObjV(<<>>), objectList), db |-> database]
        ELSE [val |-> merged,
              db |-> [database EXCEPT !.collections =
                         [c \in DOMAIN @ |->
                             [i \in 1..Len(@[c]) |->
                                 IF @[c][i] = objectList[1] THEN merged ELSE @[c][i]]]]]

\* Object.assign({}, ...objectList): a new object takes the properties
MergeObjects(node, env, database) ==
    LET objectNodes == Get(node, "objectNodes")
        objectList == [i \in 1..Len(objectNodes) |-> Run(objectNodes[i], env, database).val]
    IN  IF \E i \in 1..Len(objectList) : IsRaise(objectList[i])
        THEN [val |-> RaiseV, db |-> database]
        ELSE [val |-> ObjectAssign(ObjV(<<>>), objectList), db |-> database]

\* db.generateID(): an identifier that the database has not handed out before
generateID(database) ==
    [id |-> StrV(ToString(database.ids + 1)), db |-> [database EXCEPT !.ids = @ + 1]]

\* the object is pushed as it was constructed, the id is only returned
CreateEntity_pushesUnassigned(node, env, database) ==
    LET obj == Run(Get1(node, "objectNode"), env, database).val
        generated == generateID(database)
        coll == node.a.objectType
    IN  IF IsRaise(obj) \/ obj.t # "object" THEN [val |-> RaiseV, db |-> database]
        ELSE [val |-> generated.id,
              db |-> [generated.db EXCEPT !.collections[coll] = Append(@, obj)]]

\* a statement of the generated code that changes the database:
\* obj = objectNode; id = db.generateID(); obj.id = id; coll.push(obj); return id
CreateEntity(node, env, database) ==
    LET obj == Run(Get1(node, "objectNode"), env, database).val
        generated == generateID(database)
        id == generated.id
        coll == node.a.objectType
    IN  IF IsRaise(obj) THEN [val |-> RaiseV, db |-> database]
        ELSE IF obj.t # "object"
             THEN [val |-> RaiseV, db |-> generated.db]
             ELSE [val |-> id,
                   db |-> [generated.db EXCEPT
                              !.collections[coll] =
                                  Append(@, ObjV(("id" :> id) @@ obj.v))]]

\* the list is read again once the collection is filtered
DeleteEntities_readsAfterRemoval(node, env, database) ==
    LET objectsToDelete == Run(Get1(node, "listNode"), env, database).val
        coll == database.collections[node.a.objectType]
        ids == IF objectsToDelete.t = "list"
               THEN {Member(objectsToDelete.v[i], "id") : i \in 1..Len(objectsToDelete.v)}
               ELSE {RaiseV}
        after == [database EXCEPT !.collections[node.a.objectType] =
                     Pick(coll, {i \in 1..Len(coll) : Member(coll[i], "id") \notin ids}, 1)]
    IN  IF IsRaise(objectsToDelete) \/ objectsToDelete.t # "list" \/ RaiseV \in ids
        THEN [val |-> RaiseV, db |-> database]
        ELSE [val |-> Run(Get1(node, "listNode"), env, after).val, db |-> after]

\* objectsToDelete = list; ids = new Set(objectsToDelete.map(e => e.id));
\* coll = coll.filter(e => !ids.has(e.id)); return objectsToDelete
DeleteEntities(node, env, database) ==
    LET objectsToDelete == Run(Get1(node, "listNode"), env, database).val
        coll == database.collections[node.a.objectType]
        ids == IF objectsToDelete.t = "list"
               THEN {Member(objectsToDelete.v[i], "id") : i \in 1..Len(objectsToDelete.v)}
               ELSE {RaiseV}
    IN  IF IsRaise(objectsToDelete) \/ objectsToDelete.t # "list" \/ RaiseV \in ids
        THEN [val |-> RaiseV, db |-> database]
        ELSE [val |-> objectsToDelete,
              db |-> [database EXCEPT !.collections[node.a.objectType] =
                         Pick(coll, {i \in 1..Len(coll) : Member(coll[i], "id") \notin ids}, 1)]]

\* the properties are assigned one after the other, each value read from
\* the entity as the assignments before it have left it
RECURSIVE assignInTurn(_, _, _, _, _)
assignInTurn(updates, env, label, entity, database) ==
    IF updates = <<>> \/ IsRaise(entity) THEN entity
    ELSE LET value == Run(Get1(Head(updates), "valueNode"), Bind(env, label, entity),
                          database).val
         IN  assignInTurn(Tail(updates), env, label,
                          IF IsRaise(value) THEN RaiseV
                          ELSE ObjV((Head(updates).a.propertyName :> value) @@ entity.v),
                          database)
RECURSIVE updateEach_assignsInTurn(_, _, _, _)
updateEach_assignsInTurn(node, env, list, acc) ==
    IF list = <<>> \/ IsRaise(acc.val) THEN acc
    ELSE LET entity == Head(list)
             assigned == IF entity.t = "object"
                         THEN assignInTurn(Get(node, "updates"), env,
                                           Get1(node, "currentEntityVariable").a.label,
                                           entity, acc.db)
                         ELSE entity
         IN  IF IsRaise(assigned) \/ entity.t \in {"null", "undefined"}
             THEN [val |-> RaiseV, db |-> acc.db]
             ELSE updateEach_assignsInTurn(node, env, Tail(list),
                     [val |-> ListV(Append(acc.val.v, Member(assigned, "id"))),
                      db |-> [acc.db EXCEPT !.collections =
                                 [c \in DOMAIN @ |->
                                     [i \in 1..Len(@[c]) |->
                                         IF @[c][i] = entity THEN assigned ELSE @[c][i]]]]])

\* list.map(entity => { Object.assign(entity, updates); return entity.id }): a
\* stored entity is the object of the list that equals it
RECURSIVE updateEach(_, _, _, _)
updateEach(node, env, list, acc) ==
    IF list = <<>> \/ IsRaise(acc.val) THEN acc
    ELSE LET entity == Head(list)
             updates == Run(ObjectQueryNode(Get(node, "updates")),
                             Bind(env, Get1(node, "currentEntityVariable").a.label, entity),
                             acc.db).val
             assigned == IF entity.t = "object" THEN ObjectAssign(entity, <<updates>>)
                         ELSE entity
         IN  IF IsRaise(updates) \/ entity.t \in {"null", "undefined"}
             THEN [val |-> RaiseV, db |-> acc.db]
             ELSE updateEach(node, env, Tail(list),
                     [val |-> ListV(Append(acc.val.v, Member(assigned, "id"))),
                      db |-> [acc.db EXCEPT !.collections =
                                 [c \in DOMAIN @ |->
                                     [i \in 1..Len(@[c]) |->
                                         IF @[c][i] = entity THEN assigned ELSE @[c][i]]]]])

UpdateEntities(node, env, database) ==
    LET list == Run(Get1(node, "listNode"), env, database).val
    IN  IF IsRaise(list) \/ list.t # "list" THEN [val |-> RaiseV, db |-> database]
        ELSE updateEach(node, env, list.v, [val |-> ListV(<<>>), db |-> database])

\* a == b of JavaScript on the values of the model
LooseEquals(a, b) ==
    \/ a = b
    \/ a.t \in {"null", "undefined"} /\ b.t \in {"null", "undefined"}
    \/ a.t = "number" /\ b.t = "string" /\ b.v = ToString(a.v)
    \/ a.t = "string" /\ b.t = "number" /\ a.v = ToString(b.v)

\* coll = coll.filter(edge => !(edge._from == from && edge._to == to));
\* coll.push({_from: newFrom, _to: newTo}): the ids of the filter are
\* evaluated per edge, those of the new edge after the filter is assigned
SetEdge(node, env, database) ==
    LET coll == database.edges[node.a.edgeType.name]
        froms == Get(node, "existingEdge.fromIDNode")
        tos == Get(node, "existingEdge.toIDNode")
        from == IF froms = <<>> THEN UndefinedV ELSE Run(froms[1], env, database).val
        to == IF tos = <<>> THEN UndefinedV ELSE Run(tos[1], env, database).val
        fromHolds(edge) == froms = <<>> \/ LooseEquals(edge.from, from)
        toHolds(edge) == tos = <<>> \/ LooseEquals(edge.to, to)
        throws == \/ coll # <<>> /\ IsRaise(from)
                  \/ IsRaise(to) /\ \E i \in 1..Len(coll) : fromHolds(coll[i])
        stays == {i \in 1..Len(coll) : ~(fromHolds(coll[i]) /\ toHolds(coll[i]))}
        filtered == [database EXCEPT !.edges[node.a.edgeType.name] = Pick(coll, stays, 1)]
        newFrom == Run(Get1(node, "newEdge.fromIDNode"), env, filtered).val
        newTo == Run(Get1(node, "newEdge.toIDNode"), env, filtered).val
    IN  IF throws THEN [val |-> RaiseV, db |-> database]
        ELSE IF IsRaise(newFrom) \/ IsRaise(newTo) THEN [val |-> RaiseV, db |-> filtered]
        ELSE [val |-> UndefinedV,
              db |-> [filtered EXCEPT !.edges[node.a.edgeType.name] =
                         Append(@, [from |-> newFrom, to |-> newTo])]]

\* runs the code of one query of the transaction
Run(code, env, database) ==
    IF code.kind = "CreateEntity" THEN CreateEntity(code, env, database)
    ELSE IF code.kind = "MergeObjects" THEN MergeObjects(code, env, database)
    ELSE IF code.kind = "DeleteEntities" THEN DeleteEntities(code, env, database)
    ELSE IF code.kind = "UpdateEntities" THEN UpdateEntities(code, env, database)
    ELSE IF code.kind = "SetEdge" THEN SetEdge(code, env, database)
    ELSE [val |-> Eval(code, env, database), db |-> database]

(***************************************************************************)
(* getJSQuery: QueryContext and the processors                             *)
(***************************************************************************)
NewQueryContext == [variableMap |-> [x \in {} |-> "JSVariable"]]

\* every variable of the context is available
newPreExecContext_keepsAll(context) == context

newPreExecContext(context) ==
    [variableMap |->
        [x \in {y \in DOMAIN context.variableMap :
                    context.variableMap[y] = "JSQueryResultVariable"} |->
            context.variableMap[x]]]

\* gives no context but the label of the variable that is introduced twice
newNestedContextWithNewVariable_rebinds(context, variableNode, jsVariable) ==
    [error |-> <<>>,
     variableMap |-> (variableNode.a.label :> jsVariable) @@ context.variableMap]

newNestedContextWithNewVariable(context, variableNode, jsVariable) ==
    IF variableNode.a.label \in DOMAIN context.variableMap
    THEN [error |-> <<"Variable ", variableNode.a.label, " is introduced twice">>]
    ELSE [error |-> <<>>,
          variableMap |-> (variableNode.a.label :> jsVariable) @@ context.variableMap]

introduceVariable(context, variableNode) ==
    newNestedContextWithNewVariable(context, variableNode, "JSVariable")

Processed(code, preExecQueries) ==
    [error |-> <<>>, code |-> code, preExecQueries |-> preExecQueries]
Failed(message) == [error |-> message, code |-> NullQueryNode, preExecQueries |-> <<>>]

\* the unbound variable becomes a runtime error of the generated code
getVariable_lowersToRuntimeError(context, variableNode) ==
    IF variableNode.a.label \in DOMAIN context.variableMap
    THEN Processed(variableNode, <<>>)
    ELSE Processed(RuntimeErrorQueryNode(
                       <<"Variable ", variableNode.a.label, " is used but not introduced">>),
                   <<>>)

getVariable(context, variableNode) ==
    IF variableNode.a.label \in DOMAIN context.variableMap
    THEN Processed(variableNode, <<>>)
    ELSE Failed(<<"Variable ", variableNode.a.label, " is used but not introduced">>)

\* decapitalize(name) for the names of the object types
decapitalize(name) ==
    CASE name = "User" -> "user"
      [] name = "Doc" -> "doc"
      [] name = "Tag" -> "tag"
      [] OTHER -> name

\* what processors.EntityFromId hands to processNode in place of its node
firstOfEntitiesWithId(node) ==
    LET itemVariable == VariableQueryNode(decapitalize(node.a.objectType))
    IN  FirstOfListQueryNode(TransformListQueryNode(
            [listNode |-> EntitiesQueryNode(node.a.objectType),
             itemVariable |-> itemVariable,
             filterNode |-> BinaryOperationQueryNode(
                                RootEntityIDQueryNode(itemVariable), "EQUAL",
                                Get1(node, "idNode"))]))

RECURSIVE processNode(_, _)
RECURSIVE processAll(_, _)
RECURSIVE addPreExecuteQueries(_, _, _)

\* the pre-execution queries of a later operand come first
processAll_laterFirst(jobs, acc) ==
    IF jobs = <<>> \/ acc.error # <<>> THEN acc
    ELSE LET r == processNode(Head(jobs).node, Head(jobs).context)
         IN  processAll(Tail(jobs),
                        [error |-> r.error,
                         codes |-> Append(acc.codes, r.code),
                         preExecQueries |-> r.preExecQueries \o acc.preExecQueries])

\* processNode on each job [node, context] in turn; the first Error ends it
processAll(jobs, acc) ==
    IF jobs = <<>> \/ acc.error # <<>> THEN acc
    ELSE LET r == processNode(Head(jobs).node, Head(jobs).context)
         IN  processAll(Tail(jobs),
                        [error |-> r.error,
                         codes |-> Append(acc.codes, r.code),
                         preExecQueries |-> acc.preExecQueries \o r.preExecQueries])

\* the loop of the WithPreExecution processor over addPreExecuteQuery
addPreExecuteQueries(parms, context, acc) ==
    IF parms = <<>> THEN [error |-> <<>>, context |-> context, preExecQueries |-> acc]
    ELSE LET parm == Head(parms)
             hasVar == Len(Get(parm, "resultVariable")) > 0
             newContext == IF hasVar
                           THEN newNestedContextWithNewVariable(
                                    context, Get1(parm, "resultVariable"),
                                    "JSQueryResultVariable")
                           ELSE [error |-> <<>>, variableMap |-> context.variableMap]
             q == processNode(Get1(parm, "query"), newPreExecContext(context))
         IN  IF newContext.error # <<>>
             THEN [error |-> newContext.error, context |-> context, preExecQueries |-> acc]
             ELSE IF q.error # <<>>
             THEN [error |-> q.error, context |-> context, preExecQueries |-> acc]
             ELSE addPreExecuteQueries(
                      Tail(parms), [variableMap |-> newContext.variableMap],
                      Append(acc,
                             [preExecQueries |-> q.preExecQueries,
                              code |-> q.code,
                              resultVariable |-> IF hasVar
                                                 THEN Get1(parm, "resultVariable").a.label
                                                 ELSE "",
                              resultValidator |-> parm.a.resultValidator]))

processNode(node, context) ==
    LET job(n) == [node |-> n, context |-> context]
        start == [error |-> <<>>, codes |-> <<>>, preExecQueries |-> <<>>]
        \* the processors that process their operands in the context they got
        plain ==
            LET r == processAll([i \in 1..Len(node.kids) |-> job(node.kids[i].node)], start)
            IN  IF r.error # <<>> THEN Failed(r.error)
                ELSE Processed([node EXCEPT !.kids =
                                   [i \in 1..Len(node.kids) |->
                                       Kid(node.kids[i].key, r.codes[i])]],
                               r.preExecQueries)
    IN  CASE node.kind \in {"Literal", "Null", "RuntimeError", "ConstBool", "Entities"} ->
                Processed(node, <<>>)
          [] node.kind \in {"Object", "PropertySpecification", "List", "Field", "RootEntityID",
                            "BinaryOperation", "Conditional", "AccessCondition", "FollowEdge",
                            "MergeObjects", "FirstOfList",
                            "CreateEntity", "SetEdge", "OrderSpecification", "OrderClause"} ->
                plain
          [] node.kind = "Variable" -> getVariable(context, node)
          [] node.kind = "VariableAssignment" ->
                LET newContext == introduceVariable(context, Get1(node, "variableNode"))
                    inner(n) == [node |-> n, context |-> [variableMap |-> newContext.variableMap]]
                    r == processAll(<<inner(Get1(node, "variableValueNode")),
                                      inner(Get1(node, "resultNode"))>>, start)
                IN  IF newContext.error # <<>> THEN Failed(newContext.error)
                    ELSE IF r.error # <<>> THEN Failed(r.error)
                    ELSE Processed(VariableAssignmentQueryNode(
                                       Get1(node, "variableNode"), r.codes[1], r.codes[2]),
                                   r.preExecQueries)
          [] node.kind = "DeleteEntities" ->
                LET newContext == introduceVariable(context, Get1(node, "currentEntityVariable"))
                    r == processNode(Get1(node, "listNode"), context)
                IN  IF newContext.error # <<>> THEN Failed(newContext.error)
                    ELSE IF r.error # <<>> THEN Failed(r.error)
                    ELSE Processed([node EXCEPT !.kids[1] = Kid("listNode", r.code)],
                                   r.preExecQueries)
          [] node.kind = "UpdateEntities" ->
                LET newContext == introduceVariable(context, Get1(node, "currentEntityVariable"))
                    r == processAll(<<[node |-> ObjectQueryNode(Get(node, "updates")),
                                       context |-> [variableMap |-> newContext.variableMap]],
                                      job(Get1(node, "listNode"))>>, start)
                IN  IF newContext.error # <<>> THEN Failed(newContext.error)
                    ELSE IF r.error # <<>> THEN Failed(r.error)
                    ELSE Processed(UpdateEntitiesQueryNode(
                                       node.a.objectType, r.codes[2],
                                       Get(r.codes[1], "properties"),
                                       Get1(node, "currentEntityVariable")),
                                   r.preExecQueries)
          [] node.kind = "EntityFromId" -> processNode(firstOfEntitiesWithId(node), context)
          [] node.kind = "WithPreExecution" ->
                LET pre == addPreExecuteQueries(Get(node, "preExecQueries"), context, <<>>)
                    r == processNode(Get1(node, "resultNode"), pre.context)
                IN  IF pre.error # <<>> THEN Failed(pre.error)
                    ELSE IF r.error # <<>> THEN Failed(r.error)
                    ELSE Processed(r.code, pre.preExecQueries \o r.preExecQueries)
          [] node.kind = "TransformList" ->
                LET itemContext == introduceVariable(context, Get1(node, "itemVariable"))
                    item(n) == [node |-> n, context |-> [variableMap |-> itemContext.variableMap]]
                    r == processAll(<<item(Get1(node, "orderBy")),
                                      job(Get1(node, "listNode")),
                                      item(Get1(node, "filterNode")),
                                      item(Get1(node, "innerNode"))>>, start)
                IN  IF itemContext.error # <<>> THEN Failed(itemContext.error)
                    ELSE IF r.error # <<>> THEN Failed(r.error)
                    ELSE Processed([node EXCEPT !.kids =
                                       << node.kids[1], Kid("listNode", r.codes[2]),
                                          Kid("innerNode", r.codes[4]),
                                          Kid("filterNode", r.codes[3]),
                                          Kid("orderBy", r.codes[1]) >>],
                                   r.preExecQueries)
          [] OTHER -> Failed(<<"Unsupported query type: ", node.kind>>)

createJSCompoundQuery(node, resultVariable, resultValidator, context) ==
    LET r == processNode(node, context)
    IN  IF r.error # <<>> THEN [error |-> r.error]
        ELSE [error |-> <<>>, preExecQueries |-> r.preExecQueries, code |-> r.code,
              resultVariable |-> resultVariable, resultValidator |-> resultValidator]

getJSQuery(node) == createJSCompoundQuery(node, "result", NoValidator, NewQueryContext)

\* the queries of the transaction in the order in which they are executed
RECURSIVE getExecutableQueries(_)
RECURSIVE executablesOf(_)
executablesOf(compounds) ==
    IF compounds = <<>> THEN <<>>
    ELSE getExecutableQueries(Head(compounds)) \o executablesOf(Tail(compounds))
getExecutableQueries(compound) ==
    executablesOf(compound.preExecQueries)
        \o <<[code |-> compound.code, resultVariable |-> compound.resultVariable,
              resultValidator |-> compound.resultValidator]>>

\* every value passes
validate_passesAll(resultValidator, value) == TRUE

\* QueryResultValidator: does the value pass
validate(resultValidator, value) ==
    resultValidator.kind = "ErrorIfNotTruthy" => Truthy(value)

(***************************************************************************)
(* Input trees                                                             *)
(***************************************************************************)
ErrorMessages == <<"error A", "error B", "error C", "error D", "error E">>
Lit == LiteralQueryNode(NumV(1))
Err(i) == RuntimeErrorQueryNode(<<ErrorMessages[i]>>)
UserObject(name, group) ==
    ObjV([id |-> StrV("u1"), name |-> StrV(name), accessGroup |-> StrV(group)])
NameOf(objectNode) == FieldQueryNode(objectNode, "name", "User")

Leaves == {Lit, NameOf(LiteralQueryNode(UserObject("ann", "public")))}
              \cup {Err(i) : i \in 1..MaxErr}

Composites(S) ==
    {ConditionalQueryNode(c, x, y) : c \in S, x \in S, y \in S}
        \cup {TransformListQueryNode([listNode |-> l, innerNode |-> x, filterNode |-> f]) :
                l \in S, x \in S, f \in S}
        \cup {BinaryOperationQueryNode(l, "AND", r) : l \in S, r \in S}
        \cup {ListQueryNode(<<x, y>>) : x \in S, y \in S}
        \cup {ObjectQueryNode(<<PropertySpecification("a", x), PropertySpecification("b", y)>>) :
                x \in S, y \in S}
        \cup {VariableAssignmentQueryNode(VariableQueryNode("v"), x, y) : x \in S, y \in S}

Nested(S) ==
    {ObjectQueryNode(<<PropertySpecification("a", x)>>) : x \in S}
        \cup {ListQueryNode(<<x, Err(1)>>) : x \in S}
        \cup {TransformListQueryNode(
                  [listNode |-> Lit, innerNode |-> x,
                   orderBy |-> OrderSpecification(<<OrderClause(Err(1), "ASCENDING")>>)]) :
                x \in S}
        \cup {TransformListQueryNode(
                  [listNode |-> Lit,
                   orderBy |-> OrderSpecification(<<OrderClause(x, "DESCENDING")>>)]) :
                x \in Leaves}

\* protected nodes that differ in type, field and in the data of the user
ProtectedNodes ==
    {FieldQueryNode(LiteralQueryNode(UserObject(n, g)), f, "User") :
        n \in {"ann", "bob"}, g \in {"public", "secret"}, f \in {"name", "accessGroup"}}
        \cup {FieldQueryNode(LiteralQueryNode(NumV(n)), "title", "Doc") : n \in 1..2}
        \cup {CreateEntityQueryNode(ty,
                  ObjectQueryNode(<<PropertySpecification("title", LiteralQueryNode(StrV(n))),
                                    PropertySpecification("accessGroup",
                                                          LiteralQueryNode(StrV(g)))>>)) :
                ty \in {"User", "Doc"}, n \in {"ann", "bob"}, g \in {"public", "secret"}}
        \cup {FollowEdgeQueryNode(e, LiteralQueryNode(UserObject(n, "public")), side) :
                e \in {UserDocs, UserTags}, n \in {"ann", "bob"},
                side \in {"FROM_SIDE", "TO_SIDE"}}

Trees ==
    Leaves \cup Composites(Leaves) \cup Nested(Composites(Leaves))
        \cup ProtectedNodes
        \cup {ObjectQueryNode(<<PropertySpecification("a", x), PropertySpecification("b", Lit)>>) :
                x \in ProtectedNodes}

Database(users, docs, userDocs) ==
    [collections |-> [User |-> users, Doc |-> docs, Tag |-> <<>>],
     edges |-> [User_docs |-> userDocs, User_tags |-> <<>>],
     ids |-> 0]
EmptyDB == Database(<<>>, <<>>, <<>>)

(***************************************************************************)
(* The pipeline: authorization, then moveErrorsToOutputNodes               *)
(***************************************************************************)
Start(t, ctx, database) ==
    /\ root = t
    /\ authContext = ctx
    /\ db = database
    /\ pc = "authorize"
    /\ tree = t
    /\ queryTree = t
    /\ path = <<>>
    /\ dir = "enter"
    /\ stack = <<>>
    /\ errorList = <<>>
    /\ left = NoCall
    /\ transformed = NoCall
    /\ thrown = <<>>
    /\ jsQuery = NoCall
    /\ resultVars = NoVariables
    /\ nextPreExec = 1
    /\ result = UndefinedV
    /\ secondQuery = NoCall
    /\ movedOnce = NoCall
    /\ rootEntities = NoCall
    /\ permissionProfiles = NoCall
    /\ validationMessages = NoCall

Init ==
    \E t \in Trees : \E ctx \in [Checks(t) -> PermissionResult] : Start(t, ctx, EmptyDB)

Moves(to) == path' = to.path /\ dir' = to.dir

\* the authorization visitor goes down to the children of a node first
AuthEnter ==
    /\ pc = "authorize" /\ dir = "enter"
    /\ Moves(AfterEnter(tree, path))
    /\ UNCHANGED <<pc, root, authContext, db, queryTree, tree, stack, errorList, left,
                   transformed, thrown, jsQuery, resultVars, nextPreExec, result>>
    /\ UNCHANGED secondQuery
    /\ UNCHANGED schemaVars
    /\ UNCHANGED movedOnce

\* and replaces the node by what its transformer returns
AuthLeave ==
    /\ pc = "authorize" /\ dir = "leave"
    /\ LET node == NodeAt(tree, path)
           ret == transformNode(node, authContext)
           to == AfterNode(tree, path)
       IN  /\ transformed' = IF node.kind \in {"Field", "CreateEntity", "FollowEdge"}
                             THEN [called |-> TRUE, node |-> node, ret |-> ret, path |-> path]
                             ELSE transformed
           /\ IF ret.kind = "Throw"
              THEN /\ pc' = "threw"
                   /\ thrown' = ret.a.message
                   /\ UNCHANGED <<tree, queryTree, path, dir>>
              ELSE /\ tree' = ReplaceAt(tree, path, ret)
                   /\ thrown' = thrown
                   /\ IF to.dir = "end"
                      THEN /\ pc' = "moveErrors"
                           /\ queryTree' = tree'
                           /\ path' = <<>>
                           /\ dir' = "enter"
                      ELSE /\ Moves(to)
                           /\ UNCHANGED <<pc, queryTree>>
    /\ UNCHANGED <<root, authContext, db, stack, errorList, left, jsQuery, resultVars,
                   nextPreExec, result>>
    /\ UNCHANGED secondQuery
    /\ UNCHANGED schemaVars
    /\ UNCHANGED movedOnce

MoveEnter ==
    /\ pc = "moveErrors" /\ dir = "enter"
    /\ LET node == NodeAt(tree, path)
           r == enter(node, KeyAt(tree, path), stack, errorList, path)
       IN  /\ r.action = "VISIT"
           /\ stack' = r.stack
           /\ errorList' = r.errorList
           /\ Moves(AfterEnter(tree, path))
    /\ UNCHANGED <<pc, root, authContext, db, queryTree, tree, left, transformed, thrown,
                   jsQuery, resultVars, nextPreExec, result>>
    /\ UNCHANGED secondQuery
    /\ UNCHANGED schemaVars
    /\ UNCHANGED movedOnce

\* VisitAction.SKIP_NODE: neither the fields of the object are visited nor is leave called
MoveSkip ==
    /\ pc = "moveErrors" /\ dir = "enter"
    /\ enter(NodeAt(tree, path), KeyAt(tree, path), stack, errorList, path).action = "SKIP_NODE"
    /\ Moves(AfterNode(tree, path))
    /\ UNCHANGED <<pc, root, authContext, db, queryTree, tree, stack, errorList, left,
                   transformed, thrown, jsQuery, resultVars, nextPreExec, result>>
    /\ UNCHANGED secondQuery
    /\ UNCHANGED schemaVars
    /\ UNCHANGED movedOnce

MoveLeave ==
    /\ pc = "moveErrors" /\ dir = "leave"
    /\ LET node == NodeAt(tree, path)
           frame == stack[Len(stack)]
           r == leave(node, frame, errorList)
           to == AfterNode(tree, path)
       IN  /\ stack' = Front(stack)
           /\ errorList' = r.errorList
           /\ tree' = ReplaceAt(tree, path, r.ret)
           /\ left' = [called |-> TRUE, path |-> path, node |-> node, frame |-> frame,
                       errors |-> errorList, ret |-> r.ret]
           /\ IF to.dir = "end"
              THEN pc' = "moved" /\ UNCHANGED <<path, dir>>
              ELSE Moves(to) /\ pc' = pc
    /\ UNCHANGED <<root, authContext, db, queryTree, transformed, thrown, jsQuery,
                   resultVars, nextPreExec, result>>
    /\ UNCHANGED secondQuery
    /\ UNCHANGED schemaVars
    /\ UNCHANGED movedOnce

\* moveErrorsToOutputNodes(moveErrorsToOutputNodes(queryTree)): the pass is called on
\* the tree it returned, with an errorList and a stack of its own
MoveAgain ==
    /\ pc = "moved"
    /\ movedOnce = NoCall
    /\ movedOnce' = [called |-> TRUE, queryTree |-> queryTree, ret |-> tree]
    /\ queryTree' = tree
    /\ pc' = "moveErrors"
    /\ path' = <<>>
    /\ dir' = "enter"
    /\ stack' = <<>>
    /\ errorList' = <<>>
    /\ UNCHANGED <<root, authContext, db, tree, left, transformed, thrown, jsQuery,
                   resultVars, nextPreExec, result, secondQuery>>
    /\ UNCHANGED schemaVars

Next == AuthEnter \/ AuthLeave \/ MoveEnter \/ MoveSkip \/ MoveLeave \/ MoveAgain

Spec == Init /\ [][Next]_vars

(***************************************************************************)
(* Compilation and execution of the transaction                            *)
(***************************************************************************)
Compile ==
    /\ pc = "moved"
    /\ LET q == getJSQuery(tree)
       IN  IF q.error # <<>>
           THEN pc' = "threw" /\ thrown' = q.error /\ UNCHANGED jsQuery
           ELSE pc' = "exec" /\ jsQuery' = q /\ UNCHANGED thrown
    /\ UNCHANGED <<root, authContext, db, queryTree, tree, path, dir, stack, errorList, left,
                   transformed, resultVars, nextPreExec, result>>
    /\ UNCHANGED secondQuery
    /\ UNCHANGED schemaVars
    /\ UNCHANGED movedOnce

\* a pre-execution query runs and its validator checks its result
RunPreExec ==
    /\ pc = "exec"
    /\ LET queries == getExecutableQueries(jsQuery)
           query == queries[nextPreExec]
           r == Run(query.code, resultVars, db)
       IN  /\ nextPreExec < Len(queries)
           /\ db' = r.db
           /\ IF IsRaise(r.val)
              THEN /\ pc' = "failed"
                   /\ UNCHANGED <<thrown, resultVars, nextPreExec>>
              ELSE IF ~validate(query.resultValidator, r.val)
              THEN /\ pc' = "failed"
                   /\ thrown' = query.resultValidator.message
                   /\ UNCHANGED <<resultVars, nextPreExec>>
              ELSE /\ resultVars' = IF query.resultVariable = "" THEN resultVars
                                    ELSE Bind(resultVars, query.resultVariable, r.val)
                   /\ nextPreExec' = nextPreExec + 1
                   /\ UNCHANGED <<pc, thrown>>
    /\ UNCHANGED <<root, authContext, queryTree, tree, path, dir, stack, errorList, left,
                   transformed, jsQuery, result>>
    /\ UNCHANGED secondQuery
    /\ UNCHANGED schemaVars
    /\ UNCHANGED movedOnce

\* the main query runs once every pre-execution query has passed
RunMain ==
    /\ pc = "exec"
    /\ LET queries == getExecutableQueries(jsQuery)
           r == Run(queries[nextPreExec].code, resultVars, db)
       IN  /\ nextPreExec = Len(queries)
           /\ db' = r.db
           /\ IF IsRaise(r.val)
              THEN pc' = "failed" /\ UNCHANGED result
              ELSE pc' = "done" /\ result' = r.val
    /\ UNCHANGED <<root, authContext, queryTree, tree, path, dir, stack, errorList, left,
                   transformed, thrown, jsQuery, resultVars, nextPreExec>>
    /\ UNCHANGED secondQuery
    /\ UNCHANGED schemaVars
    /\ UNCHANGED movedOnce

(***************************************************************************)
(* Inputs of the generator: authorized single nodes and list               *)
(* transformations over literal lists                                      *)
(***************************************************************************)
SeqsUpTo(S, n) == UNION {[1..k -> S] : k \in 0..n}

Doc(id, group) == ObjV([id |-> StrV(id), accessGroup |-> StrV(group)])
Docs == <<Doc("d1", "public"), Doc("d2", "secret"), Doc("d3", "public")>>
Users == <<UserObject("ann", "public")>>
EdgeChoices == {[from |-> "u1", to |-> "d1"], [from |-> "u1", to |-> "d2"],
                [from |-> "u1", to |-> "d3"], [from |-> "u2", to |-> "d3"],
                [from |-> "u1", to |-> "d9"], [from |-> "u1", to |-> "u1"]}
EdgeRecord(e) == [from |-> StrV(e.from), to |-> StrV(e.to)]
Item(id, k, keep) == ObjV([id |-> NumV(id), k |-> NumV(k), keep |-> BoolV(keep)])
ItemValues == {NullV, Item(1, 1, TRUE), Item(2, 1, FALSE), Item(3, 0, TRUE)}
ItemVar == VariableQueryNode("item")
ItemField(f) == FieldQueryNode(ItemVar, f, "Item")
Orderings ==
    {OrderSpecification(<<>>),
     OrderSpecification(<<OrderClause(ItemField("k"), "DESCENDING")>>),
     OrderSpecification(<<OrderClause(ItemField("k"), "ASCENDING"),
                          OrderClause(ItemField("id"), "DESCENDING")>>),
     OrderSpecification(<<OrderClause(ItemField("k"), "DESCENDING"),
                          OrderClause(ItemField("id"), "DESCENDING")>>)}
Filters == {ConstBoolQueryNode(TRUE), ItemField("keep")}
MaxCounts == {UndefinedV, NumV(0), NumV(1), NumV(2)}
InnerNodes == {ItemVar, RootEntityIDQueryNode(ItemVar)}

\* operands of the expressions
Operands ==
    {NullV, UndefinedV, BoolV(FALSE), BoolV(TRUE), NumV(0), NumV(7), StrV(""), StrV("name"),
     ListV(<<NumV(7)>>), ObjV([name |-> StrV("ann")]),
     ObjV([name |-> NullV, b |-> ObjV([name |-> NumV(7)])])}
\* trees that are evaluated without data
Expressions ==
    {FieldQueryNode(LiteralQueryNode(v), f, "Item") : v \in Operands, f \in {"name", "b", "c"}}

\* operands of CONTAINS and IN: lists of numbers and of strings, strings and
\* other values
MembershipOperands ==
    {ListV(<<>>), ListV(<<NumV(7)>>), ListV(<<StrV("7"), StrV("name")>>),
     StrV("name"), StrV("am"), StrV("7"), NumV(7), NullV}
Memberships ==
    {BinaryOperationQueryNode(LiteralQueryNode(l), op, LiteralQueryNode(r)) :
        l \in MembershipOperands, op \in {"CONTAINS", "IN"}, r \in MembershipOperands}

\* lookups: the first element of a literal list, the entity with an id
Lookups ==
    {FirstOfListQueryNode(LiteralQueryNode(ListV(l))) :
        l \in {<<>>, <<NumV(7)>>, <<NullV, NumV(7)>>, <<StrV("name"), NumV(0)>>}}
        \cup {EntityFromIdQueryNode("Doc", LiteralQueryNode(id)) :
                id \in {StrV("d1"), StrV("d3"), StrV("d9"), NullV}}

\* SetEdge: a filter with the id of one side or of both, and a new edge
\* whose ids are literals or the id of the first of no entities
IdOf(id) == LiteralQueryNode(StrV(id))
ExistingEdges ==
    {[fromIDNode |-> IdOf("u1")], [toIDNode |-> IdOf("d1")],
     [fromIDNode |-> IdOf("u1"), toIDNode |-> IdOf("d1")]}
NewEdges ==
    {[fromIDNode |-> IdOf("u1"), toIDNode |-> IdOf("d3")],
     [fromIDNode |-> IdOf("u1"),
      toIDNode |-> RootEntityIDQueryNode(FirstOfListQueryNode(EntitiesQueryNode("Tag")))]}

\* operands of MergeObjects: literals and the first stored Doc
MergeOperands ==
    {LiteralQueryNode(ObjV([a |-> NumV(1), b |-> NumV(2)])),
     LiteralQueryNode(ObjV([b |-> NumV(3), c |-> NumV(4)])),
     LiteralQueryNode(ObjV([b |-> ObjV([x |-> NumV(1)])])),
     LiteralQueryNode(ObjV([b |-> ObjV([y |-> NumV(2)]), id |-> NullV])),
     FirstOfListQueryNode(EntitiesQueryNode("Doc"))}
StoredDB == Database(Users, Docs, <<>>)

\* lists of entities to delete: all of a type, those of a group, the first of
\* a group, and objects that share nothing but the id with a stored entity
PublicDocs(maxCount) ==
    TransformListQueryNode(
        [listNode |-> EntitiesQueryNode("Doc"), itemVariable |-> ItemVar,
         filterNode |-> BinaryOperationQueryNode(ItemField("accessGroup"), "EQUAL",
                                                 LiteralQueryNode(StrV("public"))),
         maxCount |-> maxCount])
DeleteLists ==
    {EntitiesQueryNode("Doc"), PublicDocs(UndefinedV), PublicDocs(NumV(1)),
     ListQueryNode(<<LiteralQueryNode(ObjV([id |-> StrV("d2")])),
                     LiteralQueryNode(ObjV([id |-> StrV("d9")]))>>),
     ListQueryNode(<<NullQueryNode>>)}

\* updates of Docs: the list is every Doc, those of a group, the first of a
\* group or empty, and the updates overwrite a property that another one
\* reads, replace a nested object, add a property or are empty
EntityVar == VariableQueryNode("entity")
UpdatedDocs ==
    <<ObjV([id |-> StrV("d1"), accessGroup |-> StrV("public"),
            meta |-> ObjV([a |-> NumV(1), b |-> NumV(2)])]),
      Doc("d2", "secret"), Doc("d3", "public")>>
UpdateLists ==
    {EntitiesQueryNode("Doc"), PublicDocs(UndefinedV), PublicDocs(NumV(1)), ListQueryNode(<<>>)}
UpdateChoices ==
    {<<>>,
     <<PropertySpecification("title", LiteralQueryNode(StrV("t")))>>,
     <<PropertySpecification("accessGroup", LiteralQueryNode(StrV("secret"))),
       PropertySpecification("title", FieldQueryNode(EntityVar, "accessGroup", "Doc"))>>,
     <<PropertySpecification("title", FieldQueryNode(EntityVar, "accessGroup", "Doc")),
       PropertySpecification("accessGroup", FieldQueryNode(EntityVar, "id", "Doc"))>>,
     <<PropertySpecification("meta", LiteralQueryNode(ObjV([a |-> NumV(5)])))>>}
Updates ==
    {UpdateEntitiesQueryNode("Doc", l, u, EntityVar) : l \in UpdateLists, u \in UpdateChoices}

\* trees with two pre-execution steps below a node that binds the variable v;
\* a label names one VariableQueryNode object
ResultVariables == <<VariableQueryNode("r1"), VariableQueryNode("r2")>>
LexicalVariable == VariableQueryNode("v")
ScopeRefs == {Lit, ResultVariables[1], ResultVariables[2], LexicalVariable}
StepsOf(queries) ==
    [i \in 1..Len(queries) |->
        PreExecQueryParms([query |-> queries[i], resultVariable |-> ResultVariables[i]])]
Enclosures == {"none", "VariableAssignment", "TransformList", "UpdateEntities", "DeleteEntities"}
\* a node that introduces the variable, around the node
Binder(kind, variableNode, node) ==
    CASE kind = "VariableAssignment" ->
            VariableAssignmentQueryNode(variableNode, Lit, node)
      [] kind = "TransformList" ->
            TransformListQueryNode([listNode |-> LiteralQueryNode(ListV(<<NumV(5)>>)),
                                    itemVariable |-> variableNode, innerNode |-> node])
      [] kind = "UpdateEntities" ->
            UpdateEntitiesQueryNode("Doc", EntitiesQueryNode("Doc"),
                                    <<PropertySpecification("title", node)>>, variableNode)
      [] kind = "DeleteEntities" ->
            DeleteEntitiesQueryNode("Doc",
                ConditionalQueryNode(node, EntitiesQueryNode("Doc"), ListQueryNode(<<>>)),
                variableNode)
      [] kind = "WithPreExecution" ->
            WithPreExecutionQueryNode(
                node, <<PreExecQueryParms([query |-> Lit, resultVariable |-> variableNode])>>)
      [] OTHER -> node
Enclose(kind, node) == Binder(kind, LexicalVariable, node)
ScopeTree(kind, queries, resultNode) ==
    Enclose(kind, WithPreExecutionQueryNode(resultNode, StepsOf(queries)))

\* assignments whose value or result refers to the assigned variable v, to
\* the variable w that nothing binds, or to no variable
SelfAssignments ==
    {VariableAssignmentQueryNode(LexicalVariable, value, n) :
        value \in {Lit, LexicalVariable, ListQueryNode(<<Lit, LexicalVariable>>),
                   VariableQueryNode("w")},
        n \in {Lit, LexicalVariable}}

\* two binding nodes, one below the other or side by side in a list
BinderKinds == {"VariableAssignment", "TransformList", "WithPreExecution"}
OuterKinds == BinderKinds \cup {"UpdateEntities", "DeleteEntities"}
BoundVariables == {LexicalVariable, VariableQueryNode("w")}
NestedBinders(outer, x, inner, y) == Binder(outer, x, Binder(inner, y, Lit))
SiblingBinders(first, x, second, y) ==
    ListQueryNode(<<Binder(first, x, Lit), Binder(second, y, Lit)>>)

\* transactions: every step creates a Doc that carries its title or gives
\* false, with or without a validator; the main query creates the Doc "main"
CreateDoc(title) ==
    CreateEntityQueryNode(
        "Doc", ObjectQueryNode(<<PropertySpecification("title", LiteralQueryNode(StrV(title)))>>))
StepChoices ==
    {[effect |-> e, validated |-> v] : e \in BOOLEAN, v \in BOOLEAN}
StepTitle(i) == "step " \o ToString(i)
StepFailed(i) == <<StepTitle(i), " failed">>
Step(choice, i) ==
    PreExecQueryParms(
        [query |-> IF choice.effect THEN CreateDoc(StepTitle(i))
                   ELSE LiteralQueryNode(BoolV(FALSE)),
         resultVariable |-> VariableQueryNode(StepTitle(i)),
         resultValidator |-> IF choice.validated
                             THEN ErrorIfNotTruthyResultValidator(StepFailed(i), "step")
                             ELSE NoValidator])
Transaction(choices) ==
    WithPreExecutionQueryNode(CreateDoc("main"), [i \in 1..Len(choices) |-> Step(choices[i], i)])

\* trees with several WithPreExecution nodes: each has its tag, a number of
\* steps named after the tag, and a result node
Declaring(tag, count, resultNode) ==
    WithPreExecutionQueryNode(
        resultNode,
        [i \in 1..count |->
            PreExecQueryParms(
                [query |-> LiteralQueryNode(StrV(tag \o ToString(i))),
                 resultVariable |-> VariableQueryNode(tag \o ToString(i)),
                 resultValidator |->
                     ErrorIfNotTruthyResultValidator(<<tag, ToString(i), " failed">>, tag)])])
StepCounts == 0..(MaxSteps - 1)
DeclaringTrees ==
    {ObjectQueryNode(<<PropertySpecification("a", Binder(k, LexicalVariable,
                                                        Declaring("a", ca, Lit))),
                       PropertySpecification("b", Declaring("b", cb, Lit))>>) :
        k \in BinderKinds \cup {"none"}, ca \in StepCounts, cb \in StepCounts}
      \cup {Declaring("a", ca, Declaring("b", cb, VariableQueryNode("a1"))) :
                ca \in StepCounts \ {0}, cb \in StepCounts}
      \cup {WithPreExecutionQueryNode(
                VariableQueryNode("q"),
                <<PreExecQueryParms([query |-> Declaring("a", ca, Lit)]),
                  PreExecQueryParms([query |-> Declaring("b", cb, VariableQueryNode("b1")),
                                     resultVariable |-> VariableQueryNode("q")])>>) :
                ca \in StepCounts, cb \in StepCounts \ {0}}
      \cup {TransformListQueryNode(
                [listNode |-> Declaring("l", cl, LiteralQueryNode(ListV(<<NumV(5), NumV(6)>>))),
                 itemVariable |-> LexicalVariable,
                 filterNode |-> Declaring("f", 1, ConstBoolQueryNode(TRUE)),
                 orderBy |-> OrderSpecification(
                                 <<OrderClause(Declaring("o", co, Lit), "ASCENDING")>>),
                 innerNode |-> Declaring("i", 1, LexicalVariable)]) :
                cl \in StepCounts, co \in StepCounts}
      \cup {UpdateEntitiesQueryNode(
                "Doc", Declaring("l", cl, EntitiesQueryNode("Doc")),
                <<PropertySpecification("title", Declaring("u", cu, VariableQueryNode("u1")))>>,
                LexicalVariable) :
                cl \in StepCounts, cu \in StepCounts \ {0}}

\* the tree that the two passes hand to the generator for a tree of one node
StartExec(node, ctx, database) ==
    /\ transformNode(node, ctx).kind # "Throw"
    /\ root = node
    /\ authContext = ctx
    /\ db = database
    /\ pc = "moved"
    /\ tree = transformNode(node, ctx)
    /\ queryTree = tree
    /\ path = <<>>
    /\ dir = "leave"
    /\ stack = <<>>
    /\ errorList = <<>>
    /\ left = NoCall
    /\ transformed = NoCall
    /\ thrown = <<>>
    /\ jsQuery = NoCall
    /\ resultVars = NoVariables
    /\ nextPreExec = 1
    /\ result = UndefinedV
    /\ secondQuery = NoCall
    /\ movedOnce = NoCall
    /\ rootEntities = NoCall
    /\ permissionProfiles = NoCall
    /\ validationMessages = NoCall

InitExec ==
    \/ \E n \in {x \in ProtectedNodes : x.kind = "CreateEntity"} :
         \E c \in [Checks(n) -> PermissionResult] :
           \E d \in {EmptyDB, Database(Users, Docs, <<>>)} : StartExec(n, c, d)
    \/ \E n \in {x \in ProtectedNodes : x.kind = "FollowEdge" /\ x.a.edgeType = UserDocs} :
         \E c \in [Checks(n) -> PermissionResult] :
           \E es \in SeqsUpTo(EdgeChoices, MaxEdges) :
             StartExec(n, c, Database(Users, Docs, [i \in 1..Len(es) |-> EdgeRecord(es[i])]))
    \/ \E n \in Expressions : StartExec(n, [c \in Checks(n) |-> "GRANTED"], EmptyDB)
    \/ \E n \in Memberships : StartExec(n, [c \in {} |-> "GRANTED"], EmptyDB)
    \/ \E existing \in ExistingEdges, new \in NewEdges, es \in SeqsUpTo(EdgeChoices, MaxEdges) :
         StartExec(SetEdgeQueryNode(UserDocs, existing, new), [c \in {} |-> "GRANTED"],
                   Database(Users, Docs, [i \in 1..Len(es) |-> EdgeRecord(es[i])]))
    \/ \E n \in Updates, k \in 0..Len(UpdatedDocs) :
         StartExec(n, [c \in {} |-> "GRANTED"],
                   Database(Users, SubSeq(UpdatedDocs, 1, k), <<>>))
    \/ \E n \in SelfAssignments : StartExec(n, [c \in {} |-> "GRANTED"], EmptyDB)
    \/ \E n \in Lookups, d \in {EmptyDB, StoredDB} :
         StartExec(n, [c \in {} |-> "GRANTED"], d)
    \/ \E l \in DeleteLists, docs \in SeqsUpTo({Docs[i] : i \in 1..Len(Docs)}, MaxItems) :
         StartExec(DeleteEntitiesQueryNode("Doc", l, VariableQueryNode("entity")),
                   [c \in {} |-> "GRANTED"], Database(Users, docs, <<>>))
    \/ \E e \in Enclosures, q1 \in ScopeRefs, q2 \in ScopeRefs, n \in ScopeRefs :
         StartExec(ScopeTree(e, <<q1, q2>>, n), [c \in {} |-> "GRANTED"], StoredDB)
    \/ \E k1 \in OuterKinds, k2 \in BinderKinds,
            x \in BoundVariables, y \in BoundVariables :
         StartExec(NestedBinders(k1, x, k2, y), [c \in {} |-> "GRANTED"], StoredDB)
    \/ \E k1 \in BinderKinds, k2 \in BinderKinds, x \in BoundVariables, y \in BoundVariables :
         StartExec(SiblingBinders(k1, x, k2, y), [c \in {} |-> "GRANTED"], StoredDB)
    \/ \E choices \in SeqsUpTo(StepChoices, MaxSteps) :
         StartExec(Transaction(choices), [c \in {} |-> "GRANTED"], EmptyDB)
    \/ \E n \in DeclaringTrees : StartExec(n, [c \in {} |-> "GRANTED"], StoredDB)
    \/ \E ns \in SeqsUpTo(MergeOperands, MaxItems) :
         StartExec(MergeObjectsQueryNode(ns), [c \in {} |-> "GRANTED"], StoredDB)
    \/ \E items \in SeqsUpTo(ItemValues, MaxItems) :
         \E f \in Filters, o \in Orderings, m \in MaxCounts, g \in InnerNodes :
           StartExec(TransformListQueryNode(
                         [listNode |-> LiteralQueryNode(ListV(items)),
                          itemVariable |-> ItemVar, filterNode |-> f, orderBy |-> o,
                          maxCount |-> m, innerNode |-> g]),
                     [x \in {} |-> "GRANTED"], EmptyDB)

\* the second call goes on with the list of pre-execution queries of the first
Recompile_reusesContext ==
    /\ pc \in {"threw", "failed", "done"}
    /\ secondQuery = NoCall
    /\ LET q == getJSQuery(tree)
       IN  secondQuery' = IF q.error # <<>> THEN q
                          ELSE [q EXCEPT !.preExecQueries = jsQuery.preExecQueries \o @]
    /\ UNCHANGED <<pc, root, authContext, db, queryTree, tree, path, dir, stack, errorList,
                   left, transformed, thrown, jsQuery, resultVars, nextPreExec, result>>
    /\ UNCHANGED schemaVars
    /\ UNCHANGED movedOnce

\* getJSQuery is called once more on the tree, with a QueryContext of its own
Recompile ==
    /\ pc \in {"threw", "failed", "done"}
    /\ secondQuery = NoCall
    /\ secondQuery' = getJSQuery(tree)
    /\ UNCHANGED <<pc, root, authContext, db, queryTree, tree, path, dir, stack, errorList,
                   left, transformed, thrown, jsQuery, resultVars, nextPreExec, result>>
    /\ UNCHANGED schemaVars
    /\ UNCHANGED movedOnce

NextExec == Compile \/ RunPreExec \/ RunMain \/ Recompile

SpecExec == InitExec /\ [][NextExec]_vars

(***************************************************************************)
(* Validation of the schema: the permission profiles of the root entities  *)
(***************************************************************************)
VALIDATION_ERROR_UNDEFINED_PERMISSION_PROFILE == "undefined permission profile"
VALIDATION_ERROR_ACCESS_GROUP_FIELD_MISSING == "accessGroup field missing"
VALIDATION_ERROR_ACCESS_GROUP_FIELD_WRONG_TYPE == "accessGroup field of wrong type"
ACCESS_GROUP_FIELD == "accessGroup"

\* a profile: whether one of its permissions is for the roles of the request,
\* and whether its permissions restrict to access groups
PermissionProfiles ==
    {[applies |-> a, restrictToAccessGroups |-> r] : a \in BOOLEAN, r \in BOOLEAN}
ProfileNames == {"test", "grouped"}
Registries == UNION {[names -> PermissionProfiles] : names \in SUBSET ProfileNames}

\* the messages for one root entity; "" stands for no permissionProfile argument
validateRootEntity(rootEntity, name, profiles) ==
    IF name = "" THEN <<>>
    ELSE IF name \notin DOMAIN profiles
    THEN <<[message |-> VALIDATION_ERROR_UNDEFINED_PERMISSION_PROFILE, type |-> rootEntity]>>
    ELSE IF ~profiles[name].restrictToAccessGroups THEN <<>>
    ELSE IF ACCESS_GROUP_FIELD \notin getFields(rootEntity)
    THEN <<[message |-> VALIDATION_ERROR_ACCESS_GROUP_FIELD_MISSING, type |-> rootEntity]>>
    ELSE IF getFieldType(rootEntity, ACCESS_GROUP_FIELD) # "String"
              /\ getTypeKind(getFieldType(rootEntity, ACCESS_GROUP_FIELD)) # "ENUM_TYPE_DEFINITION"
    THEN <<[message |-> VALIDATION_ERROR_ACCESS_GROUP_FIELD_WRONG_TYPE, type |-> rootEntity]>>
    ELSE <<>>

\* UndefinedPermissionProfileValidator.validate(ast, {permissionProfiles})
RECURSIVE validateFrom(_, _, _)
validateFrom(i, entities, profiles) ==
    IF i > Len(RootEntityTypes) THEN <<>>
    ELSE validateRootEntity(RootEntityTypes[i], entities[RootEntityTypes[i]], profiles)
             \o validateFrom(i + 1, entities, profiles)
validateSchema(entities, profiles) == validateFrom(1, entities, profiles)

\* the verdict of the permission descriptor of a root entity with a profile
canAccessByProfile(entities, profiles, objectType, field) ==
    IF field # "" \/ entities[objectType] = "" THEN "GRANTED"
    ELSE LET profile == profiles[entities[objectType]]
         IN  IF ~profile.applies THEN "DENIED"
             ELSE IF profile.restrictToAccessGroups THEN "CONDITIONAL"
             ELSE "GRANTED"

\* relations that a query follows from a user
FollowedEdges ==
    {FollowEdgeQueryNode(e, LiteralQueryNode(UserObject("ann", "public")), "FROM_SIDE") :
        e \in {UserDocs, UserTags, UserMemos, UserNotes}}
        \cup {FollowEdgeQueryNode(UserDocs, LiteralQueryNode(Docs[1]), "TO_SIDE")}

InitSchema ==
    /\ pc = "schema"
    /\ rootEntities \in [{RootEntityTypes[i] : i \in 1..Len(RootEntityTypes)} ->
                            ProfileNames \cup {""}]
    /\ permissionProfiles \in Registries
    /\ validationMessages = NoCall
    /\ root = NoCall
    /\ authContext = NoCall
    /\ db = EmptyDB
    /\ tree = NoCall
    /\ queryTree = NoCall
    /\ path = <<>>
    /\ dir = "leave"
    /\ stack = <<>>
    /\ errorList = <<>>
    /\ left = NoCall
    /\ transformed = NoCall
    /\ thrown = <<>>
    /\ jsQuery = NoCall
    /\ resultVars = NoVariables
    /\ nextPreExec = 1
    /\ result = UndefinedV
    /\ secondQuery = NoCall
    /\ movedOnce = NoCall

\* the validator runs on the schema
Validate ==
    /\ pc = "schema"
    /\ validationMessages' = validateSchema(rootEntities, permissionProfiles)
    /\ pc' = IF validationMessages' = <<>> THEN "valid" ELSE "invalid"
    /\ UNCHANGED <<root, authContext, db, queryTree, tree, path, dir, stack, errorList, left,
                   transformed, thrown, jsQuery, resultVars, nextPreExec, result, secondQuery,
                   movedOnce, rootEntities, permissionProfiles>>

\* a query that follows a relation is authorized against the valid schema
Follow ==
    /\ pc = "valid"
    /\ \E node \in FollowedEdges :
         LET ctx == [c \in Checks(node) |->
                        canAccessByProfile(rootEntities, permissionProfiles, c[1], c[2])]
             r == transformFollowEdgeQueryNode(node, ctx)
         IN  /\ root' = node
             /\ authContext' = ctx
             /\ transformed' = [called |-> TRUE, node |-> node, ret |-> r, path |-> <<>>]
             /\ IF r.kind = "Throw"
                THEN pc' = "threw" /\ thrown' = r.a.message /\ UNCHANGED tree
                ELSE pc' = "authorized" /\ tree' = r /\ UNCHANGED thrown
    /\ UNCHANGED <<db, queryTree, path, dir, stack, errorList, left, jsQuery, resultVars,
                   nextPreExec, result, secondQuery>>
    /\ UNCHANGED schemaVars
    /\ UNCHANGED movedOnce

NextSchema == Validate \/ Follow

SpecSchema == InitSchema /\ [][NextSchema]_vars

(***************************************************************************)
(* Notions the properties are stated with                                  *)
(***************************************************************************)
\* p comes before q in the depth-first traversal
EnteredBefore(p, q) ==
    \/ Len(p) < Len(q) /\ IsPrefix(p, q)
    \/ \E i \in 1..Len(p) :
          /\ i <= Len(q)
          /\ SubSeq(p, 1, i - 1) = SubSeq(q, 1, i - 1)
          /\ p[i] < q[i]

\* every slot on the way from the root of t to p is an output slot of its parent
IsOutputPath(t, p) ==
    \A i \in 1..Len(p) :
        KeyAt(t, SubSeq(p, 1, i)) \in outputNodesMap(NodeAt(t, SubSeq(p, 1, i - 1)).kind)

\* the positions the traversal of moveErrorsToOutputNodes enters
EnteredPaths(t) ==
    {p \in Paths(t) : \A i \in 0..Len(p) : IsQueryNode(NodeAt(t, SubSeq(p, 1, i)))}

ErrorPaths(t) == {p \in EnteredPaths(t) : NodeAt(t, p).kind = "RuntimeError"}
OutputErrorPaths(t) == {p \in ErrorPaths(t) : IsOutputPath(t, p)}

RECURSIVE SeparatedBy(_, _, _)
SeparatedBy(msgs, n, sep) ==
    IF n = 0 THEN <<>>
    ELSE IF n = 1 THEN msgs[1]
    ELSE SeparatedBy(msgs, n - 1, sep) \o <<sep>> \o msgs[n]

Substituted == left.called /\ left.frame.isOutputNode /\ Len(left.errors) > 0

IsProtected(node) == node.kind \in {"Field", "CreateEntity", "FollowEdge"}
AllDenied == \A c \in DOMAIN authContext : authContext[c] = "DENIED"
TokensOf(msg) == {msg[i] : i \in 1..Len(msg)}
UserData == {"ann", "bob", "public", "secret", "u1"}

\* the verdicts of the checks of a protected node
FieldVerdict(node) ==
    CASE node.kind = "Field" -> authContext[<<node.a.objectType, node.a.field, "READ">>]
      [] node.kind = "FollowEdge" ->
            authContext[<<getTypeOfSide(node.a.edgeType, node.a.sourceFieldSide),
                          getFieldOfSide(node.a.edgeType, node.a.sourceFieldSide), "READ">>]
      [] OTHER -> "GRANTED"
EntityVerdict(node) ==
    CASE node.kind = "CreateEntity" -> authContext[<<node.a.objectType, "", "WRITE">>]
      [] node.kind = "FollowEdge" ->
            authContext[<<getTypeOfSide(node.a.edgeType,
                                        invertRelationFieldEdgeSide(node.a.sourceFieldSide)),
                          "", "READ">>]
      [] OTHER -> "GRANTED"
\* a FollowEdge over a side that declares a field
WellFormed(node) ==
    node.kind = "FollowEdge" => getFieldOfSide(node.a.edgeType, node.a.sourceFieldSide) # ""
SameSubject(n, m) ==
    /\ n.kind = m.kind
    /\ n.kind = "Field" => n.a = m.a
    /\ n.kind = "CreateEntity" => n.a.objectType = m.a.objectType
    /\ n.kind = "FollowEdge" => n.a = m.a
SubjectNames(n) ==
    CASE n.kind = "Field" -> {n.a.objectType, n.a.field}
      [] n.kind = "CreateEntity" -> {n.a.objectType}
      [] OTHER -> {getTypeOfSide(n.a.edgeType, n.a.sourceFieldSide),
                   getFieldOfSide(n.a.edgeType, n.a.sourceFieldSide)}

(***************************************************************************)
(* Properties                                                              *)
(***************************************************************************)

\* C1: when leave substitutes at an output node, the collected errors are in the
\* order in which the traversal entered them; two or more are replaced by one
\* RuntimeError with their messages joined by ", " in that order, a single one
\* is returned itself; the node at that position is what leave returned.
C1_JoinedInFirstEnteredOrder ==
    Substituted =>
        /\ \A i, j \in 1..Len(left.errors) :
              i < j => EnteredBefore(left.errors[i].at, left.errors[j].at)
        /\ Len(left.errors) = 1 => left.ret = left.errors[1].node
        /\ Len(left.errors) >= 2 =>
              left.ret = RuntimeErrorQueryNode(
                  SeparatedBy([i \in 1..Len(left.errors) |-> left.errors[i].node.a.message],
                              Len(left.errors), ", "))
        /\ NodeAt(tree, left.path) = left.ret

C1_Witness ==
    /\ Substituted
    /\ Len(left.errors) >= 2
    /\ left.errors[1].node # left.errors[2].node
    /\ left.ret.a.message = left.errors[1].node.a.message \o <<", ">>
                                \o left.errors[2].node.a.message

\* C2: a node is replaced only by errors that are the node itself or lie below it.
C2_OnlyOwnErrorsReplaceANode ==
    Substituted => \A i \in 1..Len(left.errors) : IsPrefix(left.path, left.errors[i].at)

\* C3 as stated: no node at a non-output position is substituted, and errors
\* that lie only below non-output slots leave the result value as it was.
C3_NonOutputErrorsLeaveResult ==
    /\ (left.called /\ left.ret # left.node) => IsOutputPath(queryTree, left.path)
    /\ (pc = "moved" /\ OutputErrorPaths(queryTree) = {}) => tree = queryTree

\* C3 amended: no node at a non-output position is substituted; an error the
\* traversal enters is never dropped: once the pass has ended, an output
\* position holds a RuntimeError, and a TransformList at the root with an error
\* in its filter predicate is itself replaced by a RuntimeError.
C3_SubstitutionOnlyAtOutputNodes ==
    /\ (left.called /\ left.ret # left.node) => IsOutputPath(queryTree, left.path)
    /\ (pc = "moved" /\ ErrorPaths(queryTree) # {}) => OutputErrorPaths(tree) # {}
    /\ (/\ pc = "moved"
        /\ queryTree.kind = "TransformList"
        /\ ErrorPaths(Get1(queryTree, "filterNode")) # {})
            => tree.kind = "RuntimeError"

C3_Witness ==
    /\ pc = "moved"
    /\ queryTree.kind = "TransformList"
    /\ ErrorPaths(queryTree) = {<<4>>}
    /\ tree = Get1(queryTree, "filterNode")

C5_GrantedReturnsNode ==
    (/\ transformed.called
     /\ WellFormed(transformed.node)
     /\ FieldVerdict(transformed.node) = "GRANTED"
     /\ EntityVerdict(transformed.node) = "GRANTED")
        => /\ transformed.ret = transformed.node
           /\ pc # "threw"
           /\ pc = "authorize" => NodeAt(tree, transformed.path) = transformed.node

C5_Witness ==
    /\ transformed.called
    /\ transformed.node.kind = "FollowEdge"
    /\ WellFormed(transformed.node)
    /\ FieldVerdict(transformed.node) = "GRANTED"
    /\ EntityVerdict(transformed.node) = "GRANTED"
    /\ pc = "moved"
    /\ tree = root

Denied(node) ==
    /\ WellFormed(node)
    /\ \/ FieldVerdict(node) = "DENIED"
       \/ FieldVerdict(node) = "GRANTED" /\ EntityVerdict(node) = "DENIED"

\* C6: a DENIED node is replaced by a RuntimeError whose message names the type
\* (and field) of the node, holds no data of the user, and is the same for
\* every node of the same type and field.
C6_DeniedMessageIsFixed ==
    (transformed.called /\ Denied(transformed.node)) =>
        /\ transformed.ret.kind = "RuntimeError"
        /\ SubjectNames(transformed.node) \subseteq TokensOf(transformed.ret.a.message)
        /\ TokensOf(transformed.ret.a.message) \cap UserData = {}
        /\ \A m \in ProtectedNodes :
              SameSubject(transformed.node, m) => transformNode(m, authContext) = transformed.ret

C6_Witness ==
    /\ transformed.called
    /\ Denied(transformed.node)
    /\ transformed.node.kind = "Field"
    /\ transformed.node.a.field = "accessGroup"
    /\ Get1(transformed.node, "objectNode").a.value.v.name = StrV("bob")
    /\ pc = "moved"

\* C9: a CONDITIONAL verdict of a field-level check makes the transformer throw.
C9_ConditionalOnFieldThrows ==
    (/\ transformed.called
     /\ WellFormed(transformed.node)
     /\ FieldVerdict(transformed.node) = "CONDITIONAL")
        => /\ transformed.ret.kind = "Throw"
           /\ pc = "threw"
           /\ thrown = transformed.ret.a.message
           /\ NodeAt(tree, transformed.path) = transformed.node

C9_Witness ==
    /\ pc = "threw"
    /\ transformed.node.kind = "FollowEdge"
    /\ FieldVerdict(transformed.node) = "CONDITIONAL"
    /\ EntityVerdict(transformed.node) = "DENIED"

\* C7: a CONDITIONAL verdict on a CreateEntity wraps it in a WithPreExecution
\* whose resultNode is the CreateEntity and whose only pre-execution query is the
\* access condition over the object, validated by ErrorIfNotTruthy; when the
\* condition is not truthy the transaction fails with the message of the
\* validator, returns nothing, hands out no id and adds no record.
C7_ConditionGuardsCreate ==
    (root.kind = "CreateEntity" /\ EntityVerdict(root) = "CONDITIONAL") =>
        LET condition == getAccessCondition(authContext, "WRITE", Get1(root, "objectNode"))
            parms == Get(tree, "preExecQueries")
            created == db.collections[root.a.objectType]
        IN  /\ tree.kind = "WithPreExecution"
            /\ Get1(tree, "resultNode") = root
            /\ Len(parms) = 1
            /\ Get1(parms[1], "query") = condition
            /\ Get(parms[1], "resultVariable") = <<>>
            /\ parms[1].a.resultValidator.kind = "ErrorIfNotTruthy"
            /\ ~Truthy(Eval(condition, NoVariables, db)) =>
                  /\ pc # "done"
                  /\ nextPreExec = 1
                  /\ result = UndefinedV
                  /\ db.ids = 0
                  /\ \A i \in 1..Len(created) : "title" \notin DOMAIN created[i].v
                  /\ pc = "failed" => thrown = parms[1].a.resultValidator.message

C7_Witness ==
    /\ root.kind = "CreateEntity"
    /\ EntityVerdict(root) = "CONDITIONAL"
    /\ pc = "failed"
    /\ Len(db.collections[root.a.objectType]) > 0
    /\ thrown = <<"Not authorized to ", "set objects with this access group">>

\* the entities a FollowEdge reaches, and those of them whose group is permitted
ReachableEntities == Eval(root, NoVariables, db).v
PermittedEntity(entity) ==
    /\ "accessGroup" \in DOMAIN entity.v
    /\ \E g \in PermittedAccessGroups : entity.v.accessGroup = StrV(g)

RankedTransformation(node) ==
    LET items == Get1(node, "listNode").a.value.v
        clauses == Get(Get1(node, "orderBy"), "clauses")
        with(i) == Bind(resultVars, Get1(node, "itemVariable").a.label, items[i])
        passing == {i \in 1..Len(items) : Truthy(Eval(Get1(node, "filterNode"), with(i), db))}
        key == [i \in passing |->
                   [c \in 1..Len(clauses) |-> Eval(Get1(clauses[c], "valueNode"), with(i), db)]]
        inverted == [c \in 1..Len(clauses) |-> clauses[c].a.direction = "DESCENDING"]
        Before(i, j) == LET c == multiCompare(key[i], key[j], inverted, 1)
                        IN  c < 0 \/ (c = 0 /\ i < j)
        rank == [i \in passing |-> Cardinality({j \in passing : Before(j, i)})]
        n == IF node.a.maxCount = UndefinedV THEN Cardinality(passing)
             ELSE Min(node.a.maxCount.v, Cardinality(passing))
        at == [r \in 1..n |-> CHOOSE i \in passing : rank[i] = r - 1]
        out == [r \in 1..n |-> Eval(Get1(node, "innerNode"), with(at[r]), db)]
    IN  [survivors |-> {at[r] : r \in 1..n},
         value |-> IF \E r \in 1..n : IsRaise(out[r]) THEN RaiseV ELSE ListV(out)]

\* C10: the code of a TransformList filters, then sorts, then caps, then maps:
\* its result is innerNode over the first maxCount of the sorted items that
\* pass the filter, and it fails only if innerNode fails on one of these.
C10_FilterOrderCapMap ==
    (root.kind = "TransformList" /\ pc \in {"done", "failed"}) =>
        LET expected == RankedTransformation(jsQuery.code).value
        IN  IF IsRaise(expected) THEN pc = "failed"
            ELSE pc = "done" /\ result = expected

C10_Witness ==
    /\ root.kind = "TransformList"
    /\ pc = "done"
    /\ Get1(root, "listNode").a.value.v = <<Item(1, 1, TRUE), NullV, Item(3, 0, TRUE)>>
    /\ Get1(root, "filterNode") = ItemField("keep")
    /\ ~isUnordered(Get1(root, "orderBy"))
    /\ root.a.maxCount = NumV(1)
    /\ Get1(root, "innerNode") = RootEntityIDQueryNode(ItemVar)
    /\ RankedTransformation(root).survivors = {3}
    /\ result = ListV(<<NumV(3)>>)

\* the order clauses of a list transformation: key expression and direction
ClausesOf(node) ==
    LET clauses == Get(Get1(node, "orderBy"), "clauses")
    IN  [c \in 1..Len(clauses) |->
            [valueNode |-> Get1(clauses[c], "valueNode"),
             descending |-> clauses[c].a.direction = "DESCENDING"]]

\* clause c puts the item with keys a before the item with keys b
ClauseBefore(comparator, a, b, c) ==
    IF comparator[c].descending THEN compare(a[c], b[c]) > 0 ELSE compare(a[c], b[c]) < 0
\* the first clause that tells the keys apart puts a before b
LexBefore(comparator, a, b) ==
    \E c \in 1..Len(comparator) :
        /\ ClauseBefore(comparator, a, b, c)
        /\ \A d \in 1..(c - 1) : compare(a[d], b[d]) = 0

\* the items of a list transformation without cap that pass the filter, in
\* the order of the list, with their keys
Survivors(node) ==
    LET items == Get1(node, "listNode").a.value.v
        comparator == ClausesOf(node)
        with(i) == Bind(NoVariables, Get1(node, "itemVariable").a.label, items[i])
        passing == {i \in 1..Len(items) : Truthy(Eval(Get1(node, "filterNode"), with(i), db))}
        kept == Pick(items, passing, 1)
    IN  [i \in 1..Len(kept) |->
            [item |-> kept[i],
             keys |-> [c \in 1..Len(comparator) |->
                          Eval(comparator[c].valueNode,
                               Bind(NoVariables, Get1(node, "itemVariable").a.label, kept[i]),
                               db)]]]

\* the same list transformation with its two order clauses swapped
SwapClauses(node) ==
    LET clauses == Get(Get1(node, "orderBy"), "clauses")
    IN  TransformListQueryNode(
            [listNode |-> Get1(node, "listNode"), itemVariable |-> Get1(node, "itemVariable"),
             filterNode |-> Get1(node, "filterNode"), innerNode |-> Get1(node, "innerNode"),
             maxCount |-> node.a.maxCount,
             orderBy |-> OrderSpecification(<<clauses[2], clauses[1]>>)])

\* a list transformation that only filters and sorts, after its run
SortedOnly ==
    /\ root.kind = "TransformList"
    /\ pc = "done"
    /\ ~isUnordered(Get1(root, "orderBy"))
    /\ root.a.maxCount = UndefinedV
    /\ Get1(root, "innerNode") = Get1(root, "itemVariable")

\* sigma is a one-to-one arrangement of the survivors that is the result, lexicographically
\* ordered, with ties on all clauses in the order of the list
StableLexArrangement(survivors, sigma) ==
    LET comparator == ClausesOf(root)
    IN  /\ \A i, j \in 1..Len(survivors) : i # j => sigma[i] # sigma[j]
        /\ result = ListV([r \in 1..Len(survivors) |-> survivors[sigma[r]].item])
        /\ \A r, q \in 1..Len(survivors) :
              r < q =>
                  /\ ~LexBefore(comparator, survivors[sigma[q]].keys, survivors[sigma[r]].keys)
                  /\ (~LexBefore(comparator, survivors[sigma[r]].keys, survivors[sigma[q]].keys))
                        => sigma[r] < sigma[q]

\* the result of a sorted list transformation is such an arrangement
SortedStableLexicographic ==
    SortedOnly =>
        LET survivors == Survivors(root)
        IN  \E sigma \in [1..Len(survivors) -> 1..Len(survivors)] :
                StableLexArrangement(survivors, sigma)

\* C11 as stated: the sort is stable and lexicographic, and for records that share
\* the primary key and differ on the secondary key the swap of the two clauses
\* changes the order of the result.
C11_SwapChangesOrderOfTies ==
    /\ SortedStableLexicographic
    /\ (/\ SortedOnly
        /\ Len(Get(Get1(root, "orderBy"), "clauses")) = 2
        /\ LET s == Survivors(root)
           IN  /\ Len(s) >= 2
               /\ \A i, j \in 1..Len(s) :
                     i # j => /\ compare(s[i].keys[1], s[j].keys[1]) = 0
                              /\ compare(s[i].keys[2], s[j].keys[2]) # 0)
          => Eval(SwapClauses(root), NoVariables, db) # result

\* C11 amended: the result of a list transformation that filters and sorts is
\* the arrangement of the survivors in which no item follows one that the
\* clauses, compared left to right with DESCENDING reversing its own key only,
\* put after it, and items that tie on all clauses keep the order of the list;
\* with two clauses, the swap of the clauses leaves the result as it is when
\* the survivors share the key of one clause, and changes it when two
\* survivors are put in opposite orders by the two clauses.
C11_StableLexicographicSort ==
    /\ SortedStableLexicographic
    /\ (SortedOnly /\ Len(Get(Get1(root, "orderBy"), "clauses")) = 2) =>
          LET s == Survivors(root)
              comparator == ClausesOf(root)
              swapped == Eval(SwapClauses(root), NoVariables, db)
          IN  /\ (\A i, j \in 1..Len(s) : compare(s[i].keys[1], s[j].keys[1]) = 0)
                    => swapped = result
              /\ (\E i, j \in 1..Len(s) :
                      /\ ClauseBefore(comparator, s[i].keys, s[j].keys, 1)
                      /\ ClauseBefore(comparator, s[j].keys, s[i].keys, 2))
                    => swapped # result

C11_Witness ==
    /\ SortedOnly
    /\ Get1(root, "listNode").a.value.v = <<Item(1, 1, TRUE), Item(3, 0, TRUE), Item(2, 1, FALSE)>>
    /\ Get1(root, "filterNode") = ConstBoolQueryNode(TRUE)
    /\ Get1(root, "orderBy") =
          OrderSpecification(<<OrderClause(ItemField("k"), "DESCENDING"),
                               OrderClause(ItemField("id"), "DESCENDING")>>)
    /\ result = ListV(<<Item(2, 1, FALSE), Item(1, 1, TRUE), Item(3, 0, TRUE)>>)
    /\ Eval(SwapClauses(root), NoVariables, db) =
          ListV(<<Item(3, 0, TRUE), Item(2, 1, FALSE), Item(1, 1, TRUE)>>)

\* C12: the code of a Field gives null and does not fail when its operand is
\* null or a boolean, a number or a string, and gives the property of that name
\* when its operand is an object.
C12_FieldOfNonObjectIsNull ==
    (root.kind = "Field" /\ Get1(root, "objectNode").kind = "Literal"
                         /\ pc \in {"done", "failed"}) =>
        LET object == Get1(root, "objectNode").a.value
        IN  /\ object.t \in {"null", "boolean", "number", "string"} =>
                  pc = "done" /\ result = NullV
            /\ object.t = "object" =>
                  /\ pc = "done"
                  /\ root.a.field \in DOMAIN object.v => result = object.v[root.a.field]
                  /\ root.a.field \notin DOMAIN object.v => result = UndefinedV

C12_Witness ==
    /\ root = FieldQueryNode(LiteralQueryNode(NullV), "name", "Item")
    /\ pc = "done"
    /\ result = NullV

\* C13: MergeObjects over objects gives an object with the keys of all
\* operands, each with the value of the right-most operand that has the key,
\* whatever that value is (a nested object is taken as a whole); no stored
\* object is changed.
C13_MergeIsRightBiasedAndShallow ==
    (root.kind = "MergeObjects" /\ pc \in {"done", "failed"}) =>
        LET objectNodes == Get(root, "objectNodes")
            operand(i) == Eval(objectNodes[i], NoVariables, StoredDB).v
            has(key) == {i \in 1..Len(objectNodes) : key \in DOMAIN operand(i)}
        IN  /\ pc = "done"
            /\ db = StoredDB
            /\ result.t = "object"
            /\ DOMAIN result.v = UNION {DOMAIN operand(i) : i \in 1..Len(objectNodes)}
            /\ \A key \in DOMAIN result.v :
                  \E i \in has(key) : /\ \A j \in has(key) : j <= i
                                      /\ result.v[key] = operand(i)[key]

C13_Witness ==
    /\ root = MergeObjectsQueryNode(
                  <<FirstOfListQueryNode(EntitiesQueryNode("Doc")),
                    LiteralQueryNode(ObjV([a |-> NumV(1), b |-> NumV(2)])),
                    LiteralQueryNode(ObjV([b |-> NumV(3), c |-> NumV(4)]))>>)
    /\ pc = "done"
    /\ result = ObjV([id |-> StrV("d1"), accessGroup |-> StrV("public"),
                      a |-> NumV(1), b |-> NumV(3), c |-> NumV(4)])

\* C14: the run of a DeleteEntities gives the entities of its list as they are
\* stored before the run, and leaves in the collection the entities stored
\* before whose id is not the id of an entity of the list, as they were and in
\* their order; the other collections stay as they are.
C14_DeleteGivesSnapshot ==
    [][(pc = "exec" /\ root.kind = "DeleteEntities"
            /\ nextPreExec = Len(getExecutableQueries(jsQuery))) =>
          LET matched == Eval(Get1(jsQuery.code, "listNode"), resultVars, db)
              stored == db.collections[root.a.objectType]
              Stays(entity) == \A i \in 1..Len(matched.v) : matched.v[i].v.id # entity.v.id
          IN  IF \E i \in 1..Len(matched.v) : matched.v[i].t # "object"
              THEN pc' = "failed" /\ db' = db
              ELSE /\ pc' = "done"
                   /\ result' = matched
                   /\ db'.collections[root.a.objectType] = SelectSeq(stored, Stays)
                   /\ db' = [db EXCEPT !.collections[root.a.objectType] =
                                          db'.collections[root.a.objectType]]]_vars

C14_Witness ==
    /\ root = DeleteEntitiesQueryNode("Doc", PublicDocs(UndefinedV), VariableQueryNode("entity"))
    /\ pc = "done"
    /\ result = ListV(<<Docs[1], Docs[3]>>)
    /\ db.collections.Doc = <<Docs[2]>>

\* the trees with two pre-execution steps and what they are made of
ScopeCases ==
    {[enclosure |-> e, queries |-> <<q1, q2>>, resultNode |-> n,
      tree |-> ScopeTree(e, <<q1, q2>>, n)] :
        e \in Enclosures, q1 \in ScopeRefs, q2 \in ScopeRefs, n \in ScopeRefs}

\* C15: a pre-execution query sees nothing but the result variables of the
\* steps declared before it: a reference to the variable of the enclosing
\* VariableAssignment, TransformList, UpdateEntities or DeleteEntities, to the
\* result variable of the step itself or to that of a later step ends the
\* compilation with "used but not introduced", and a reference to the result
\* variable of an earlier step is compiled
C15_PreExecQueriesSeeOnlyEarlierResults ==
    \A c \in ScopeCases :
        (root = c.tree /\ pc # "moved") =>
            LET unbound(q) == <<"Variable ", q.a.label, " is used but not introduced">>
                q1 == c.queries[1]
                q2 == c.queries[2]
                n == c.resultNode
            IN  /\ q1.kind = "Variable" => pc = "threw" /\ thrown = unbound(q1)
                /\ (q1 = Lit /\ q2.kind = "Variable" /\ q2 # ResultVariables[1]) =>
                       pc = "threw" /\ thrown = unbound(q2)
                /\ (q1 = Lit /\ q2 \in {Lit, ResultVariables[1]} /\ n # LexicalVariable) =>
                       /\ pc # "threw"
                       /\ Len(jsQuery.preExecQueries) = 2
                       /\ jsQuery.preExecQueries[2].code = q2
C15_Witness ==
    /\ root = ScopeTree("UpdateEntities", <<Lit, ResultVariables[1]>>, ResultVariables[2])
    /\ pc = "done"
    /\ db.collections.Doc = [i \in 1..Len(Docs) |-> ObjV(("title" :> NumV(1)) @@ Docs[i].v)]

\* the pairs of binding nodes and what they are made of
BinderCases ==
    {[nested |-> TRUE, kinds |-> <<k1, k2>>, variables |-> <<x, y>>,
      tree |-> NestedBinders(k1, x, k2, y)] :
        k1 \in OuterKinds, k2 \in BinderKinds,
        x \in BoundVariables, y \in BoundVariables}
      \cup {[nested |-> FALSE, kinds |-> <<k1, k2>>, variables |-> <<x, y>>,
              tree |-> SiblingBinders(k1, x, k2, y)] :
                k1 \in BinderKinds, k2 \in BinderKinds,
                x \in BoundVariables, y \in BoundVariables}

\* C16: a binding node below a binding node of the same variable, in the part
\* where that variable is bound, ends the compilation with "introduced twice";
\* two binding nodes of the same variable side by side are compiled, and so
\* are binding nodes of different variables
C16_IntroducedTwiceOnlyInOneScopeChain ==
    \A c \in BinderCases :
        (root = c.tree /\ pc # "moved") =>
            IF c.nested /\ c.variables[1] = c.variables[2] /\ c.kinds[1] # "DeleteEntities"
            THEN /\ pc = "threw"
                 /\ thrown = <<"Variable ", c.variables[1].a.label, " is introduced twice">>
                 /\ jsQuery = NoCall
            ELSE pc # "threw" /\ jsQuery # NoCall
C16_Witness ==
    /\ root = NestedBinders("TransformList", LexicalVariable, "WithPreExecution",
                            LexicalVariable)
    /\ pc = "threw"
    /\ thrown = <<"Variable ", "v", " is introduced twice">>

\* C17: a reference to a variable that no enclosing VariableAssignment,
\* TransformList, UpdateEntities or earlier pre-execution step binds ends the
\* compilation with "used but not introduced": there is no generated query,
\* nothing is run and no result, not even an error value, is given; with every
\* reference bound the tree is compiled
C17_UnboundVariableFailsCompilation ==
    \A c \in ScopeCases :
        (root = c.tree /\ pc # "moved") =>
            LET binds == c.enclosure \in {"VariableAssignment", "TransformList",
                                          "UpdateEntities"}
                unbound ==
                    {q \in {c.queries[1]} : q.kind = "Variable"}
                        \cup {q \in {c.queries[2]} :
                                 q.kind = "Variable" /\ q # ResultVariables[1]}
                        \cup {n \in {c.resultNode} : n = LexicalVariable /\ ~binds}
            IN  IF unbound # {}
                THEN /\ pc = "threw"
                     /\ \E q \in unbound :
                           thrown = <<"Variable ", q.a.label, " is used but not introduced">>
                     /\ jsQuery = NoCall
                     /\ db = StoredDB
                     /\ result = UndefinedV
                ELSE pc # "threw" /\ jsQuery # NoCall
C17_Witness ==
    /\ root = ScopeTree("DeleteEntities", <<Lit, Lit>>, LexicalVariable)
    /\ pc = "threw"
    /\ thrown = <<"Variable ", "v", " is used but not introduced">>
    /\ jsQuery = NoCall

\* the titles of the Docs that the first m steps of the transaction create
RECURSIVE TitlesOfSteps(_, _)
TitlesOfSteps(choices, m) ==
    IF m = 0 THEN <<>>
    ELSE TitlesOfSteps(choices, m - 1)
             \o (IF choices[m].effect THEN <<StrV(StepTitle(m))>> ELSE <<>>)

TransactionCases ==
    {[choices |-> c, tree |-> Transaction(c)] : c \in SeqsUpTo(StepChoices, MaxSteps)}

\* C18: the steps run in the order in which they are declared, a step runs
\* once the step before it has passed its validator, and the main query runs
\* once the last step has passed: the stored Docs are at any time those of the
\* first steps in their order, none of a step behind a step whose validator
\* failed, and the Doc of the main query is there when every step has passed
C18_StepsRunInOrderUntilAValidatorFails ==
    \A c \in TransactionCases :
        root = c.tree =>
            LET choices == c.choices
                n == Len(choices)
                fails(i) == choices[i].validated /\ ~choices[i].effect
                failing == {i \in 1..n : fails(i)}
                last == IF failing = {} THEN n ELSE CHOOSE i \in failing : \A j \in failing : i <= j
                stored == [i \in 1..Len(db.collections.Doc) |->
                              Member(db.collections.Doc[i], "title")]
                main == stored = TitlesOfSteps(choices, n) \o <<StrV("main")>>
            IN  /\ main \/ \E m \in 0..last : stored = TitlesOfSteps(choices, m)
                /\ main => failing = {} /\ pc = "done"
                /\ pc = "done" => main
                /\ pc = "failed" =>
                       /\ failing # {}
                       /\ stored = TitlesOfSteps(choices, last)
                       /\ thrown = StepFailed(last)
                /\ pc \in {"moved", "exec", "failed", "done"}
C18_Witness ==
    /\ root = Transaction(<<[effect |-> TRUE, validated |-> TRUE],
                            [effect |-> FALSE, validated |-> TRUE],
                            [effect |-> TRUE, validated |-> FALSE]>>)
    /\ pc = "failed"
    /\ thrown = StepFailed(2)
    /\ Len(db.collections.Doc) = 1
    /\ Member(db.collections.Doc[1], "title") = StrV("step 1")

\* the operands of a node in the order in which its processor compiles them
CompiledOperands(node) ==
    LET of(keys) == [i \in 1..Len(keys) |-> Get1(node, keys[i])]
    IN  CASE node.kind = "TransformList" ->
                of(<<"orderBy", "listNode", "filterNode", "innerNode">>)
          [] node.kind = "UpdateEntities" ->
                <<ObjectQueryNode(Get(node, "updates")), Get1(node, "listNode")>>
          [] node.kind = "DeleteEntities" -> of(<<"listNode">>)
          [] node.kind = "VariableAssignment" -> of(<<"variableValueNode", "resultNode">>)
          [] node.kind = "WithPreExecution" -> of(<<"resultNode">>)
          [] OTHER -> [i \in 1..Len(node.kids) |-> node.kids[i].node]

\* the steps that the WithPreExecution nodes of the tree declare, the queries
\* of the steps left aside: those of a node in the order of its list and
\* before those of the nodes below it, those of an operand before those of
\* the operands compiled after it
RECURSIVE DeclaredSteps(_)
RECURSIVE DeclaredStepsOfAll(_)
DeclaredStepsOfAll(nodes) ==
    IF nodes = <<>> THEN <<>>
    ELSE DeclaredSteps(Head(nodes)) \o DeclaredStepsOfAll(Tail(nodes))
DeclaredSteps(node) ==
    (IF node.kind = "WithPreExecution" THEN Get(node, "preExecQueries") ELSE <<>>)
        \o DeclaredStepsOfAll(CompiledOperands(node))

\* the tree without its WithPreExecution nodes: each gives way to its result
\* node, and an EntityFromId to the list transformation it stands for
RECURSIVE MainQuery(_)
MainQuery(node) ==
    IF node.kind = "WithPreExecution" THEN MainQuery(Get1(node, "resultNode"))
    ELSE IF node.kind = "EntityFromId" THEN MainQuery(firstOfEntitiesWithId(node))
    ELSE [node EXCEPT !.kids = [i \in 1..Len(node.kids) |->
                                   Kid(node.kids[i].key, MainQuery(node.kids[i].node))]]

\* C19: the generated transaction has one pre-execution query for each step
\* that a WithPreExecution node of the main tree declares, in the order of
\* declaration, also for nodes below nodes that bind a variable; each carries
\* the result variable and the validator of its step and the query of its
\* step, and the main query is the tree without the WithPreExecution nodes
C19_OneQueryPerDeclaredStepInOrder ==
    pc \in {"exec", "failed", "done"} =>
        LET steps == DeclaredSteps(tree)
            queries == jsQuery.preExecQueries
        IN  /\ Len(queries) = Len(steps)
            /\ \A i \in 1..Len(steps) :
                  /\ queries[i].resultVariable =
                        (IF Get(steps[i], "resultVariable") = <<>> THEN ""
                         ELSE Get1(steps[i], "resultVariable").a.label)
                  /\ queries[i].resultValidator = steps[i].a.resultValidator
                  /\ queries[i].code = MainQuery(Get1(steps[i], "query"))
                  /\ Len(queries[i].preExecQueries) = Len(DeclaredSteps(Get1(steps[i], "query")))
            /\ jsQuery.code = MainQuery(tree)
            /\ jsQuery.resultVariable = "result"
C19_Witness ==
    /\ root = TransformListQueryNode(
                  [listNode |-> Declaring("l", 2, LiteralQueryNode(ListV(<<NumV(5), NumV(6)>>))),
                   itemVariable |-> LexicalVariable,
                   filterNode |-> Declaring("f", 1, ConstBoolQueryNode(TRUE)),
                   orderBy |-> OrderSpecification(
                                   <<OrderClause(Declaring("o", 1, Lit), "ASCENDING")>>),
                   innerNode |-> Declaring("i", 1, LexicalVariable)])
    /\ pc = "done"
    /\ [i \in 1..Len(jsQuery.preExecQueries) |-> jsQuery.preExecQueries[i].resultVariable]
          = <<"o1", "l1", "l2", "f1", "i1">>
    /\ result = ListV(<<NumV(5), NumV(6)>>)

IdentifiersOf(database) ==
    UNION {{Member(database.collections[c][i], "id") : i \in 1..Len(database.collections[c])} :
              c \in DOMAIN database.collections}
CreateSteps ==
    [][(pc = "exec" /\ getExecutableQueries(jsQuery)[nextPreExec].code.kind = "CreateEntity") =>
        LET query == getExecutableQueries(jsQuery)[nextPreExec]
            coll == query.code.a.objectType
            before == db.collections[coll]
            after == db'.collections[coll]
            obj == Eval(Get1(query.code, "objectNode"), resultVars, db)
            record == after[Len(after)]
            id == Member(record, "id")
        IN  IF IsRaise(obj) THEN db' = db /\ pc' = "failed"
            ELSE /\ Len(after) = Len(before) + 1
                 /\ SubSeq(after, 1, Len(before)) = before
                 /\ \A c \in DOMAIN db.collections \ {coll} :
                        db'.collections[c] = db.collections[c]
                 /\ db'.edges = db.edges
                 /\ id.t = "string"
                 /\ id \notin IdentifiersOf(db)
                 /\ \A f \in DOMAIN obj.v \ {"id"} : Member(record, f) = obj.v[f]
                 /\ DOMAIN record.v = DOMAIN obj.v \cup {"id"}
                 /\ IF nextPreExec = Len(getExecutableQueries(jsQuery))
                    THEN pc' = "done" /\ result' = id
                    ELSE /\ pc' = "exec"
                         /\ query.resultVariable # "" =>
                                resultVars'[query.resultVariable] = id]_vars

RECURSIVE OppositeEntities(_, _, _, _)
OppositeEntities(edges, sourceID, side, targets) ==
    IF edges = <<>> THEN <<>>
    ELSE LET edge == Head(edges)
             onSource == IF side = "FROM_SIDE" THEN edge.from ELSE edge.to
             onTarget == IF side = "FROM_SIDE" THEN edge.to ELSE edge.from
             existing == SelectSeq(targets, LAMBDA e : e.v.id = onTarget)
         IN  (IF onSource = sourceID /\ existing # <<>> THEN <<Head(existing)>> ELSE <<>>)
                 \o OppositeEntities(Tail(edges), sourceID, side, targets)

\* C22: a FollowEdge that is left as it is gives, for the stored edges whose
\* id on the source side is the id of the source entity, the entities of the
\* type of the other side with the id on the other side of the edge, in the
\* order of the edges; an edge whose other id is the id of no entity gives
\* no element, and the query does not fail
C22_FollowEdgeSkipsDanglingEdges ==
    (root.kind = "FollowEdge" /\ tree = root) =>
        /\ pc \in {"moved", "exec", "done"}
        /\ pc = "done" =>
              result = ListV(OppositeEntities(
                                 db.edges[root.a.edgeType.name],
                                 Get1(root, "sourceEntityNode").a.value.v.id,
                                 root.a.sourceFieldSide,
                                 db.collections[getTypeOfSide(
                                     root.a.edgeType,
                                     invertRelationFieldEdgeSide(root.a.sourceFieldSide))]))
C22_Witness ==
    /\ root.kind = "FollowEdge"
    /\ tree = root
    /\ root.a.sourceFieldSide = "FROM_SIDE"
    /\ db.edges.User_docs = <<EdgeRecord([from |-> "u1", to |-> "d9"]),
                              EdgeRecord([from |-> "u1", to |-> "d2"])>>
    /\ pc = "done"
    /\ result = ListV(<<Docs[2]>>)

\* what the validator has to report for a root entity
ExpectedMessage(rootEntity) ==
    LET name == rootEntities[rootEntity]
        restricted == name \in DOMAIN permissionProfiles
                          /\ permissionProfiles[name].restrictToAccessGroups
        fieldType == getFieldType(rootEntity, "accessGroup")
    IN  CASE name = "" -> ""
          [] name \notin DOMAIN permissionProfiles ->
                VALIDATION_ERROR_UNDEFINED_PERMISSION_PROFILE
          [] restricted /\ "accessGroup" \notin getFields(rootEntity) ->
                VALIDATION_ERROR_ACCESS_GROUP_FIELD_MISSING
          [] restricted /\ fieldType # "String"
                /\ getTypeKind(fieldType) # "ENUM_TYPE_DEFINITION" ->
                VALIDATION_ERROR_ACCESS_GROUP_FIELD_WRONG_TYPE
          [] OTHER -> ""
MessagesFor(rootEntity) == SelectSeq(validationMessages, LAMBDA m : m.type = rootEntity)

Container(node) ==
    Get1(node, IF node.a.operator = "CONTAINS" THEN "lhs" ELSE "rhs").a.value
Contained(node) ==
    Get1(node, IF node.a.operator = "CONTAINS" THEN "rhs" ELSE "lhs").a.value

\* C24: CONTAINS(lhs, rhs) and IN(rhs, lhs) over a list lhs are true exactly
\* when rhs is an element of the list
C24_ListContainsItsElements ==
    (root.kind = "BinaryOperation" /\ root.a.operator \in {"CONTAINS", "IN"}
        /\ Container(root).t = "list" /\ pc = "done") =>
        result = BoolV(\E i \in 1..Len(Container(root).v) :
                          Container(root).v[i] = Contained(root))

\* C25: FirstOfList gives the first element of its list and null for the
\* empty list; EntityFromId gives the entity with the id and null when no
\* entity has the id
C25_FirstOfEmptyListIsNull ==
    /\ (root.kind = "FirstOfList" /\ Get1(root, "listNode").kind = "Literal" /\ pc = "done") =>
          LET list == Get1(root, "listNode").a.value.v
          IN  result = IF list = <<>> THEN NullV ELSE list[1]
    /\ (root.kind = "EntityFromId" /\ pc = "done") =>
          LET id == Get1(root, "idNode").a.value
              found == SelectSeq(db.collections[root.a.objectType], LAMBDA e : e.v.id = id)
          IN  result = IF found = <<>> THEN NullV ELSE found[1]

\* the edges that the filter of a SetEdge over literal ids matches
MatchesExisting(node, edge) ==
    /\ \A i \in 1..Len(Get(node, "existingEdge.fromIDNode")) :
          edge.from = Get(node, "existingEdge.fromIDNode")[i].a.value
    /\ \A i \in 1..Len(Get(node, "existingEdge.toIDNode")) :
          edge.to = Get(node, "existingEdge.toIDNode")[i].a.value

\* C26: a SetEdge step that succeeds has removed at most one edge, has left
\* every edge that the filter does not match and has added the new edge; a
\* step that fails has changed no edge, so that in no state an edge is
\* removed and the new edge is not there
C26_SetEdgeReplacesAtMostOneEdge ==
    [][(pc = "exec" /\ root.kind = "SetEdge") =>
        LET before == db.edges[root.a.edgeType.name]
            after == db'.edges[root.a.edgeType.name]
            kept == SelectSeq(before, LAMBDA e : ~MatchesExisting(root, e))
        IN  IF pc' = "done"
            THEN /\ Len(before) - Len(kept) <= 1
                 /\ after = Append(kept,
                                   [from |-> Get1(root, "newEdge.fromIDNode").a.value,
                                    to |-> Get1(root, "newEdge.toIDNode").a.value])
            ELSE after = before]_vars

\* the value that an update gives to the property of an entity, if it names it
UpdatedProperty(node, entity, name) ==
    LET updates == Get(node, "updates")
        naming == {i \in 1..Len(updates) : updates[i].a.propertyName = name}
        last == CHOOSE i \in naming : \A j \in naming : j <= i
    IN  IF naming = {} THEN entity.v[name]
        ELSE Eval(Get1(updates[last], "valueNode"),
                  Bind(NoVariables, Get1(node, "currentEntityVariable").a.label, entity), db)
PropertiesOf(node, entity) ==
    DOMAIN entity.v \cup {Get(node, "updates")[i].a.propertyName :
                             i \in 1..Len(Get(node, "updates"))}

\* C27: an UpdateEntities step gives every entity of its list the values of
\* the update properties, each computed from the entity as it was stored
\* before the step, as whole values; the other properties of the entity and
\* the entities that are not in the list stay as they are, and the step
\* evaluates to the ids of the entities of the list
C27_UpdatesReadTheStoredEntity ==
    [][(pc = "exec" /\ root \in Updates) =>
        LET matched == Eval(Get1(root, "listNode"), NoVariables, db).v
            stored == db.collections.Doc
            isMatched(i) == \E k \in 1..Len(matched) : matched[k] = stored[i]
        IN  /\ pc' = "done"
            /\ result' = ListV([k \in 1..Len(matched) |-> matched[k].v.id])
            /\ Len(db'.collections.Doc) = Len(stored)
            /\ \A i \in 1..Len(stored) :
                  IF isMatched(i)
                  THEN db'.collections.Doc[i] =
                           ObjV([name \in PropertiesOf(root, stored[i]) |->
                                    UpdatedProperty(root, stored[i], name)])
                  ELSE db'.collections.Doc[i] = stored[i]
            /\ db'.collections.User = db.collections.User
            /\ db'.edges = db.edges]_vars
C27_Witness ==
    /\ root = UpdateEntitiesQueryNode(
                  "Doc", PublicDocs(NumV(1)),
                  <<PropertySpecification("accessGroup", LiteralQueryNode(StrV("secret"))),
                    PropertySpecification("title", FieldQueryNode(EntityVar, "accessGroup", "Doc"))>>,
                  EntityVar)
    /\ pc = "done"
    /\ result = ListV(<<StrV("d1")>>)
    /\ db.collections.Doc =
          <<ObjV([id |-> StrV("d1"), accessGroup |-> StrV("secret"), title |-> StrV("public"),
                  meta |-> ObjV([a |-> NumV(1), b |-> NumV(2)])]),
            Doc("d2", "secret"), Doc("d3", "public")>>

\* C28: moveErrorsToOutputNodes is idempotent: when the pass has run on its own
\* result, the tree it returns is the tree it was given, so no message is
\* duplicated or joined again by the second run.
C28_PassIsIdempotent ==
    (pc = "moved" /\ movedOnce.called) => tree = movedOnce.ret

\* the message m occurs in the message msg, alone or between separators
IsPartOf(m, msg) ==
    \E i \in 1..(Len(msg) - Len(m) + 1) : SubSeq(msg, i, i + Len(m) - 1) = m
RuntimeErrorPaths(t) == {p \in Paths(t) : NodeAt(t, p).kind = "RuntimeError"}
Holders(t, m) == {q \in OutputErrorPaths(t) : IsPartOf(m, NodeAt(t, q).a.message)}

\* C29: moveErrorsToOutputNodes loses no error: when the traversal has ended the
\* list of collected errors is empty, and the message of every RuntimeError of
\* the input tree is part of the message of a RuntimeError at an output
\* position of the result, of exactly one if no other error of the input has
\* the same message.
C29_NoErrorIsLost ==
    pc = "moved" =>
        /\ errorList = <<>>
        /\ \A p \in RuntimeErrorPaths(queryTree) :
              LET m == NodeAt(queryTree, p).a.message
                  alone == \A o \in RuntimeErrorPaths(queryTree) :
                              NodeAt(queryTree, o).a.message = m => o = p
              IN  /\ Holders(tree, m) # {}
                  /\ alone => Cardinality(Holders(tree, m)) = 1

\* C30: the variable of a VariableAssignment is in scope in its resultNode
\* only: a variableValueNode that refers to the variable being assigned ends
\* the compilation with "used but not introduced", and no code is generated
\* that reads the binding inside its own initializer.
C30_ValueCannotReadItsOwnVariable ==
    \A n \in {Lit, LexicalVariable} :
        \A value \in {LexicalVariable, ListQueryNode(<<Lit, LexicalVariable>>)} :
            (root = VariableAssignmentQueryNode(LexicalVariable, value, n) /\ pc # "moved") =>
                /\ pc = "threw"
                /\ thrown = <<"Variable ", "v", " is used but not introduced">>
                /\ jsQuery = NoCall

====
